---- MODULE Spec2Model ----
(***************************************************************************)
(* micron: cron expression processor, resolver algebra, scheduler,        *)
(* executor, non-blocking selector and runtime loop.                       *)
(*                                                                         *)
(* Three specifications share the variables:                               *)
(*   SpecResolve  one resolver applied to one value (schedule/resolve)     *)
(*   SpecSched    ProcessFunc on a syntax tree, then CronSchedule.Next     *)
(*   Spec         runtime.Run driving Selector.Next and Executable.Exec    *)
(***************************************************************************)
EXTENDS Integers, Sequences, FiniteSets, TLC

VARIABLES
    \* ---- resolver under test (schedule/resolve) ----
    res,        \* the resolver
    val,        \* the value handed to Resolve
    out,        \* the distance it returned
    \* ---- cron string processing and scheduling ----
    expr,       \* top-level nodes of the parse tree (t.List())
    sched,      \* what ProcessFunc returned: [err, s]
    now,        \* the instant handed to CronSchedule.Next
    nextAt,     \* the instant returned by CronSchedule.Next
    stage,      \* "input", then "parsed" or "resolved", then "scheduled"
    \* ---- runtime / selector / executor ----
    clock,      \* wall clock, in ticks
    ctxDone,    \* the context passed to Run is cancelled
    runPC,      \* position of runtime.Run
    errCh,      \* runtime.err, the buffered error channel
    errCap,     \* cap(runtime.err)
    received,   \* errors taken from Err() by the consumer
    callSeq,    \* number of Selector.Next calls issued so far
    call,       \* the Selector.Next call in progress (record)
    tasks,      \* goroutines spawned by Selector.Next, by call number
    fired,      \* runner invocations: <<call, fire instant, runner index>>
    returns,    \* what each finished Selector.Next call returned, by call number
    metrics,    \* what the runtime and the selector have registered: [isUp, selectCalls, selectErrors]
    \* ---- selection among several executors (Selector.next, executor.Multi) ----
    selExec,    \* s.exec: the configured executors, each given by its period in ticks
    selNow,     \* the instant of the selector step
    picked,     \* what Selector.next returned: indexes into s.exec
    spawned,    \* the executors executor.Multi has started so far, in start order
    timeout,    \* Selector.timeout, in ticks
    execOut,    \* per executor of s.exec: "idle", "running", "ok" or "failed" (its Exec call)
    multiErrs,  \* errs of executor.Multi: the failed executors, in the order they returned
    selRet,     \* what the blocking Next returned
    \* ---- building a runtime (New) ----
    opts,       \* the options handed to New
    built,      \* what New returned: the runtime and the error
    ran,        \* what calling Run on the returned runtime did
    \* ---- building a selector (selector.New) ----
    selOpts,    \* the options handed to selector.New: executors and WithTimeout durations (ms)
    selector,   \* what selector.New returned: [err, timeout], the timeout in ms
    \* ---- building a schedule from resolvers (builder.Build) ----
    resolvers,  \* the Resolver values handed to Build: [category, resolver]
    schedule,   \* what Build returned: [err, s]
    \* ---- one Exec call of an executor ----
    runnerArgs, \* the runners handed to the executor's constructor
    executable, \* what the constructor returned: [by, err, runners]
    execCall    \* the Exec call: [pc, now, next, wake, i, errs, started]

resolveVars == <<res, val, out>>
schedVars   == <<expr, sched, now, nextAt>>
runVars     == <<clock, ctxDone, runPC, errCh, errCap, received, callSeq, call, tasks, fired, returns>>
selVars     == <<selExec, selNow, picked, spawned, timeout, execOut, multiErrs, selRet>>
buildVars   == <<opts, built, ran>>
newSelVars  == <<selOpts, selector>>
builderVars == <<resolvers, schedule>>
execVars    == <<runnerArgs, executable, execCall>>
vars        == <<res, val, out, expr, sched, now, nextAt, stage,
                 clock, ctxDone, runPC, errCh, errCap, received, callSeq, call, tasks, fired, returns,
                 metrics,
                 selExec, selNow, picked, spawned, timeout, execOut, multiErrs, selRet,
                 opts, built, ran, selOpts, selector, resolvers, schedule,
                 runnerArgs, executable, execCall>>

\* a nil Resolver (the zero value of the interface)
NilResolver == [kind |-> "nil", Max |-> 0, At |-> 0, From |-> 0, To |-> 0, Steps |-> <<>>]

(***************************************************************************)
(* schedule/resolve: the four resolvers                                    *)
(***************************************************************************)

Everytime == [kind |-> "Everytime", Max |-> 0, At |-> 0, From |-> 0, To |-> 0, Steps |-> <<>>]

FixedSchedule(max, at) ==
    [kind |-> "FixedSchedule", Max |-> max, At |-> at, From |-> 0, To |-> 0, Steps |-> <<>>]

RangeSchedule(max, from, to) ==
    [kind |-> "RangeSchedule", Max |-> max, At |-> 0, From |-> from, To |-> to, Steps |-> <<>>]

StepSchedule(max, steps) ==
    [kind |-> "StepSchedule", Max |-> max, At |-> 0, From |-> 0, To |-> 0, Steps |-> steps]

diff(value, from, to, maximum) ==
    IF value > to THEN from + maximum - value ELSE from - value

EverytimeResolve(s, value) == 0

FixedScheduleResolve(s, value) == diff(value, s.At, s.At, s.Max)

RangeScheduleResolve(s, value) ==
    IF value > s.From /\ value < s.To
    THEN 0
    ELSE diff(value, s.From, s.To, s.Max)

\* the loop of StepSchedule.Resolve from index i on, offset being the running minimum
RECURSIVE stepLoop(_, _, _, _)
stepLoop(s, value, i, offset) ==
    IF i > Len(s.Steps) THEN offset
    ELSE LET n == diff(value, s.Steps[i], s.Steps[i], s.Max)
         IN  IF offset = -1 THEN stepLoop(s, value, i + 1, n)
             ELSE IF n < offset THEN stepLoop(s, value, i + 1, n)
             ELSE stepLoop(s, value, i + 1, offset)

StepScheduleResolve(s, value) == stepLoop(s, value, 1, -1)

\* Resolver.Resolve, dispatched on the dynamic type
Resolve(s, value) ==
    CASE s.kind = "Everytime"     -> EverytimeResolve(s, value)
      [] s.kind = "FixedSchedule" -> FixedScheduleResolve(s, value)
      [] s.kind = "RangeSchedule" -> RangeScheduleResolve(s, value)
      [] s.kind = "StepSchedule"  -> StepScheduleResolve(s, value)

RECURSIVE valueRangeFrom(_, _, _)
valueRangeFrom(i, to, frequency) ==
    IF i > to THEN <<>> ELSE <<i>> \o valueRangeFrom(i + frequency, to, frequency)

newValueRange(from, to, frequency) ==
    IF frequency = 0 \/ from > to THEN <<>> ELSE valueRangeFrom(from, to, frequency)

NewStepSchedule(from, to, maximum, frequency) ==
    StepSchedule(maximum, newValueRange(from, to, frequency))

(***************************************************************************)
(* schedule/cronlex: values, validation and processing of the parse tree   *)
(* A node is [Type, Value, Edges]; Value is the lexeme as a byte sequence. *)
(***************************************************************************)

maxSec     == 59
maxMin     == 59
maxHour    == 23
maxDay     == 31
maxMonth   == 12
maxWeekday == 7
extraSunday == 7

override    == 1
noSeconds   == 5
withSeconds == 6

IsDigit(b) == b >= 48 /\ b <= 57
IsLower(b) == b >= 97 /\ b <= 122

\* strconv.Atoi succeeds on a non-empty run of decimal digits
AtoiOk(value) == Len(value) > 0 /\ \A i \in 1..Len(value) : IsDigit(value[i])

RECURSIVE AtoiAcc(_, _, _)
AtoiAcc(value, i, acc) ==
    IF i > Len(value) THEN acc ELSE AtoiAcc(value, i + 1, acc * 10 + (value[i] - 48))

Atoi(value) == AtoiAcc(value, 1, 0)

\* strings.ToUpper on ASCII
ToUpper(value) == [i \in 1..Len(value) |-> IF IsLower(value[i]) THEN value[i] - 32 ELSE value[i]]

\* "", JAN, FEB, MAR, APR, MAY, JUN, JUL, AUG, SEP, OCT, NOV, DEC
monthsList ==
    << <<>>, <<74,65,78>>, <<70,69,66>>, <<77,65,82>>, <<65,80,82>>, <<77,65,89>>, <<74,85,78>>,
       <<74,85,76>>, <<65,85,71>>, <<83,69,80>>, <<79,67,84>>, <<78,79,86>>, <<68,69,67>> >>

\* SUN, MON, TUE, WED, THU, FRI, SAT, SUN
weekdaysList ==
    << <<83,85,78>>, <<77,79,78>>, <<84,85,69>>, <<87,69,68>>, <<84,72,85>>, <<70,82,73>>,
       <<83,65,84>>, <<83,85,78>> >>

\* REBOOT, HOURLY, DAILY, WEEKLY, MONTHLY, ANNUALLY, YEARLY
exceptionsList ==
    << <<82,69,66,79,79,84>>, <<72,79,85,82,76,89>>, <<68,65,73,76,89>>, <<87,69,69,75,76,89>>,
       <<77,79,78,84,72,76,89>>, <<65,78,78,85,65,76,76,89>>, <<89,69,65,82,76,89>> >>

\* zero-based index of the first entry equal to v, or -1
IndexIn(v, valueList) ==
    IF \E i \in 1..Len(valueList) : valueList[i] = v
    THEN (CHOOSE i \in 1..Len(valueList) :
              valueList[i] = v /\ \A j \in 1..(i - 1) : valueList[j] # v) - 1
    ELSE -1

getValue(node, valueList) ==
    IF Len(node.Value) > 0 /\ IsDigit(node.Value[1]) /\ AtoiOk(node.Value)
    THEN Atoi(node.Value)
    ELSE IndexIn(ToUpper(node.Value), valueList)

getValueFromSymbol(symbol, valueList) ==
    IF Len(symbol.Edges) = 1 THEN getValue(symbol.Edges[1], valueList) ELSE -1

RECURSIVE rangeFrom(_, _)
rangeFrom(i, to) == IF i > to THEN <<>> ELSE <<i>> \o rangeFrom(i + 1, to)

buildRange(from, to) == IF to < from THEN <<>> ELSE rangeFrom(from, to)

buildFreq(base, maximum, freq) ==
    IF freq = 0 \/ base > maximum THEN <<>> ELSE valueRangeFrom(base, maximum, freq)

\* slices.Sort
Sort(s) == SortSeq(s, LAMBDA a, b : a < b)

\* slices.Compact: drops every element equal to its predecessor
RECURSIVE Compact(_)
Compact(s) ==
    IF Len(s) <= 1 THEN s
    ELSE LET rest == Compact(Tail(s))
         IN  IF s[1] = rest[1] THEN rest ELSE <<s[1]>> \o rest

\* the walk over n.Edges of processAlphaNum, from edge i on
RECURSIVE walkEdges(_, _, _, _, _, _)
walkEdges(n, maximum, valueList, i, value, stepValues) ==
    IF i > Len(n.Edges) THEN stepValues
    ELSE LET e == n.Edges[i]
             v == getValueFromSymbol(e, valueList)
         IN  CASE e.Type = "TokenComma" ->
                    LET sv == IF i = 1 THEN Append(stepValues, value) ELSE stepValues
                    IN  IF v >= 0
                        THEN walkEdges(n, maximum, valueList, i + 1, v, Append(sv, v))
                        ELSE walkEdges(n, maximum, valueList, i + 1, value, sv)
               [] e.Type = "TokenDash" ->
                    walkEdges(n, maximum, valueList, i + 1, value,
                              IF v >= 0 THEN stepValues \o buildRange(value, v) ELSE stepValues)
               [] e.Type = "TokenSlash" ->
                    walkEdges(n, maximum, valueList, i + 1, value,
                              IF v >= 0 THEN stepValues \o buildFreq(value, maximum, v)
                              ELSE stepValues)
               [] OTHER -> walkEdges(n, maximum, valueList, i + 1, value, stepValues)

processAlphaNum(n, maximum, valueList) ==
    LET value == getValue(n, valueList)
    IN  IF Len(n.Edges) = 0 THEN FixedSchedule(maximum, value)
        ELSE IF Len(n.Edges) = 1 /\ n.Edges[1].Type = "TokenDash"
        THEN RangeSchedule(maximum, value, getValueFromSymbol(n.Edges[1], valueList))
        ELSE StepSchedule(maximum,
                 Compact(Sort(walkEdges(n, maximum, valueList, 1, value, <<>>))))

processStar(n, minimum, maximum) ==
    IF Len(n.Edges) = 1 /\ n.Edges[1].Type = "TokenSlash" /\ Len(n.Edges[1].Edges) = 1
    THEN IF AtoiOk(n.Edges[1].Edges[1].Value)
         THEN NewStepSchedule(minimum, maximum, maximum, Atoi(n.Edges[1].Edges[1].Value))
         ELSE Everytime
    ELSE Everytime

buildSeconds(node) ==
    IF node.Type = "TokenStar" THEN processStar(node, 0, maxSec)
    ELSE processAlphaNum(node, maxSec, <<>>)

buildMinutes(node) ==
    IF node.Type = "TokenStar" THEN processStar(node, 0, maxMin)
    ELSE processAlphaNum(node, maxMin, <<>>)

buildHours(node) ==
    IF node.Type = "TokenStar" THEN processStar(node, 0, maxHour)
    ELSE processAlphaNum(node, maxHour, <<>>)

buildMonthDays(node) ==
    IF node.Type = "TokenStar" THEN processStar(node, 1, maxDay)
    ELSE processAlphaNum(node, maxDay, <<>>)

buildMonths(node) ==
    IF node.Type = "TokenStar" THEN processStar(node, 1, maxMonth)
    ELSE processAlphaNum(node, maxMonth, monthsList)

buildWeekdays(node) ==
    IF node.Type = "TokenStar" THEN processStar(node, 0, maxWeekday)
    ELSE processAlphaNum(node, maxWeekday, weekdaysList)

Schedule(sec, min, hour, dayMonth, month, dayWeek) ==
    [Sec |-> sec, Min |-> min, Hour |-> hour, DayMonth |-> dayMonth, Month |-> month,
     DayWeek |-> dayWeek]

defaultSchedule ==
    Schedule(FixedSchedule(maxSec, 0), FixedSchedule(maxMin, 0), Everytime, Everytime,
             Everytime, Everytime)

\* the constants reboot .. annually are iota 0..6
buildException(node) ==
    IF node.Type # "TokenAt" THEN defaultSchedule
    ELSE LET value == getValue(node.Edges[1], exceptionsList)
         IN  CASE value = 0 -> defaultSchedule
               [] value = 2 ->
                    Schedule(FixedSchedule(maxSec, 0), FixedSchedule(maxMin, 0),
                             FixedSchedule(maxHour, 0), Everytime, Everytime, Everytime)
               [] value = 3 ->
                    Schedule(FixedSchedule(maxSec, 0), FixedSchedule(maxMin, 0),
                             FixedSchedule(maxHour, 0), Everytime, Everytime,
                             FixedSchedule(maxWeekday, 0))
               [] value = 4 ->
                    Schedule(FixedSchedule(maxSec, 0), FixedSchedule(maxMin, 0),
                             FixedSchedule(maxHour, 0), FixedSchedule(maxDay, 1), Everytime,
                             Everytime)
               [] value \in {5, 6} ->
                    Schedule(FixedSchedule(maxSec, 0), FixedSchedule(maxMin, 0),
                             FixedSchedule(maxHour, 0), FixedSchedule(maxDay, 1),
                             FixedSchedule(maxMonth, 1), Everytime)
               [] OTHER -> defaultSchedule

\* ---- validate.go: an error is the sequence of the kinds it joins; <<>> is nil ----

nil == <<>>

\* errors.Join drops nil operands
Join(a, b) == a \o b

validateNumber(value, minimum, maximum) ==
    IF ~AtoiOk(value) THEN <<"ErrUnsupportedAlphanum">>
    ELSE IF Atoi(value) < minimum \/ Atoi(value) > maximum THEN <<"ErrOutOfBoundsAlphanum">>
    ELSE nil

validateAlpha(value, minimum, maximum, valueList) ==
    IF value = <<>> THEN <<"ErrEmptyAlphanum">>
    ELSE IF IsDigit(value[1]) THEN validateNumber(value, minimum, maximum)
    ELSE IF \E i \in 1..Len(valueList) : ToUpper(value) = valueList[i] THEN nil
    ELSE <<"ErrInvalidAlphanum">>

\* the func(string) error handed to validateField; valueList = <<>> selects validateNumber
valueFunc(value, minimum, maximum, valueList, alpha) ==
    IF alpha THEN validateAlpha(value, minimum, maximum, valueList)
    ELSE validateNumber(value, minimum, maximum)

\* the edgeLoop of validateSymbols from edge i on
RECURSIVE edgeLoop(_, _, _, _, _, _, _)
edgeLoop(edges, i, validSymbols, minimum, maximum, valueList, alpha) ==
    IF i > Len(edges) THEN nil
    ELSE IF edges[i].Type \in validSymbols
    THEN IF Len(edges[i].Edges) # 1 THEN <<"ErrInvalidNumEdges">>
         ELSE IF edges[i].Edges[1].Type = "TokenError" THEN <<"ErrInvalidAlphanum">>
         ELSE LET err == valueFunc(edges[i].Edges[1].Value, minimum, maximum, valueList, alpha)
              IN  IF err # nil THEN err
                  ELSE edgeLoop(edges, i + 1, validSymbols, minimum, maximum, valueList, alpha)
    ELSE edgeLoop(edges, i + 1, validSymbols, minimum, maximum, valueList, alpha)

validateSymbols(edges, maxEdges, validSymbols, minimum, maximum, valueList, alpha) ==
    IF Len(edges) = 0 THEN nil
    ELSE IF Len(edges) > maxEdges THEN <<"ErrInvalidNumEdges">>
    ELSE edgeLoop(edges, 1, validSymbols, minimum, maximum, valueList, alpha)

\* first error among the children of the symbols of an alphanumeric node, in order
RECURSIVE validateField(_, _, _, _, _, _)
RECURSIVE childLoop(_, _, _, _, _, _, _, _)
childLoop(node, i, idx, maxEdges, minimum, maximum, valueList, alpha) ==
    IF i > Len(node.Edges) THEN nil
    ELSE IF idx > Len(node.Edges[i].Edges)
    THEN childLoop(node, i + 1, 1, maxEdges, minimum, maximum, valueList, alpha)
    ELSE LET err == validateField(node.Edges[i].Edges[idx], maxEdges, minimum, maximum,
                                  valueList, alpha)
         IN  IF err # nil THEN err
             ELSE childLoop(node, i, idx + 1, maxEdges, minimum, maximum, valueList, alpha)

validateField(node, maxEdges, minimum, maximum, valueList, alpha) ==
    CASE node.Type = "TokenStar" ->
            validateSymbols(node.Edges, 1, {"TokenSlash"}, minimum, maximum, valueList, alpha)
      [] node.Type = "TokenAlphaNum" ->
            LET err       == validateNumber(node.Value, minimum, maximum)
                symbolErr == validateSymbols(node.Edges, maxEdges,
                                 {"TokenAlphaNum", "TokenSlash", "TokenComma", "TokenDash"},
                                 minimum, maximum, valueList, alpha)
            IN  IF symbolErr # nil THEN Join(err, symbolErr)
                ELSE childLoop(node, 1, 1, maxEdges, minimum, maximum, valueList, alpha)
      [] OTHER -> <<"ErrInvalidNodeType">>

validateSeconds(node)   == validateField(node, 60, 0, 59, <<>>, FALSE)
validateMinutes(node)   == validateField(node, 60, 0, 59, <<>>, FALSE)
validateHours(node)     == validateField(node, 24, 0, 23, <<>>, FALSE)
validateMonthDays(node) == validateField(node, 31, 1, 31, <<>>, FALSE)
validateMonths(node)    == validateField(node, 12, 1, 12, monthsList, TRUE)
validateWeekDays(node)  == validateField(node, 7, 0, 7, weekdaysList, TRUE)

\* yearly, annually, monthly, weekly, daily, hourly, reboot
frequencies ==
    { <<121,101,97,114,108,121>>, <<97,110,110,117,97,108,108,121>>,
      <<109,111,110,116,104,108,121>>, <<119,101,101,107,108,121>>, <<100,97,105,108,121>>,
      <<104,111,117,114,108,121>>, <<114,101,98,111,111,116>> }

validateOverride(node) ==
    IF node.Type # "TokenAt" THEN <<"ErrInvalidNodeType">>
    ELSE IF Len(node.Edges) # 1 THEN <<"ErrInvalidNumEdges">>
    ELSE IF node.Edges[1].Value \in frequencies THEN nil
    ELSE <<"ErrInvalidFrequency">>

Validate(nodes) ==
    CASE Len(nodes) = 1 -> validateOverride(nodes[1])
      [] Len(nodes) = 5 ->
            Join(validateMinutes(nodes[1]), Join(validateHours(nodes[2]),
            Join(validateMonthDays(nodes[3]), Join(validateMonths(nodes[4]),
                 validateWeekDays(nodes[5])))))
      [] Len(nodes) = 6 ->
            Join(validateSeconds(nodes[1]), Join(validateMinutes(nodes[2]),
            Join(validateHours(nodes[3]), Join(validateMonthDays(nodes[4]),
            Join(validateMonths(nodes[5]), validateWeekDays(nodes[6]))))))
      [] OTHER -> <<"ErrInvalidNumNodes">>

\* the loop that rewrites a Sunday written as 7: the slice is sorted in place while
\* the index keeps advancing over it
RECURSIVE sundayLoop(_, _)
sundayLoop(steps, i) ==
    IF i > Len(steps) THEN steps
    ELSE IF steps[i] = extraSunday
    THEN sundayLoop(Sort([steps EXCEPT ![i] = 0]), i + 1)
    ELSE sundayLoop(steps, i + 1)

\* Schedule{}
ZeroSchedule ==
    Schedule(NilResolver, NilResolver, NilResolver, NilResolver, NilResolver, NilResolver)

\* ProcessFunc: [err, s]; s is Schedule{} when err is not nil
ProcessFunc(nodes) ==
    LET err == Validate(nodes)
    IN  IF err # nil THEN [err |-> err, s |-> ZeroSchedule]
        ELSE IF Len(nodes) = override THEN [err |-> nil, s |-> buildException(nodes[1])]
        ELSE LET s == IF Len(nodes) = noSeconds
                      THEN Schedule(FixedSchedule(maxSec, 0), buildMinutes(nodes[1]),
                                    buildHours(nodes[2]), buildMonthDays(nodes[3]),
                                    buildMonths(nodes[4]), buildWeekdays(nodes[5]))
                      ELSE Schedule(buildSeconds(nodes[1]), buildMinutes(nodes[2]),
                                    buildHours(nodes[3]), buildMonthDays(nodes[4]),
                                    buildMonths(nodes[5]), buildWeekdays(nodes[6]))
             IN  [err |-> nil,
                  s   |-> IF s.DayWeek.kind = "StepSchedule"
                          THEN [s EXCEPT !.DayWeek.Steps = sundayLoop(s.DayWeek.Steps, 1)]
                          ELSE s]

(***************************************************************************)
(* schedule: calendar arithmetic (time.Date in UTC) and CronSchedule.Next  *)
(* An instant is [year, month, day, hour, minute, second].                 *)
(***************************************************************************)

\* days from 1970-01-01 to the first day of the given month (proleptic Gregorian)
daysSinceEpoch(year, month) ==
    LET y   == IF month <= 2 THEN year - 1 ELSE year
        era == y \div 400
        yoe == y - era * 400
        mp  == IF month > 2 THEN month - 3 ELSE month + 9
        doy == (153 * mp + 2) \div 5
        doe == yoe * 365 + yoe \div 4 - yoe \div 100 + doy
    IN  era * 146097 + doe - 719468

\* the civil date of a day count
civil(days) ==
    LET z   == days + 719468
        era == z \div 146097
        doe == z - era * 146097
        yoe == (doe - doe \div 1460 + doe \div 36524 - doe \div 146096) \div 365
        doy == doe - (365 * yoe + yoe \div 4 - yoe \div 100)
        mp  == (5 * doy + 2) \div 153
        d   == doy - (153 * mp + 2) \div 5 + 1
        m   == IF mp < 10 THEN mp + 3 ELSE mp - 9
        y   == yoe + era * 400
    IN  [year |-> IF m <= 2 THEN y + 1 ELSE y, month |-> m, day |-> d]

\* time.Date: every overflowing unit is carried into the next one
Date(year, month, day, hour, min, sec) ==
    LET m0    == month - 1
        y1    == year + m0 \div 12
        m1    == (m0 % 12) + 1
        min1  == min + sec \div 60
        sec1  == sec % 60
        hour1 == hour + min1 \div 60
        min2  == min1 % 60
        day1  == day + hour1 \div 24
        hour2 == hour1 % 24
        c     == civil(daysSinceEpoch(y1, m1) + day1 - 1)
    IN  [year |-> c.year, month |-> c.month, day |-> c.day,
         hour |-> hour2, minute |-> min2, second |-> sec1]

\* days since 1970-01-01 and second of the day: instants compare on this pair
AbsDays(t) == daysSinceEpoch(t.year, t.month) + t.day - 1
SecOfDay(t) == t.hour * 3600 + t.minute * 60 + t.second

Before(a, b) ==
    \/ AbsDays(a) < AbsDays(b)
    \/ AbsDays(a) = AbsDays(b) /\ SecOfDay(a) < SecOfDay(b)

\* Time.Weekday: 0 is Sunday; 1970-01-01 was a Thursday
Weekday(t) == (AbsDays(t) + 4) % 7

\* Time.Add of a number of seconds
AddSeconds(t, n) == Date(t.year, t.month, t.day, t.hour, t.minute, t.second + n)

fixedSeconds == FixedSchedule(maxSec, 0)

\* faulty variant of CronScheduleNext: the extra second of the implicit seconds is left out
CronScheduleNext_noExtraSecond(s, t) ==
    LET second     == t.second + 1
        nextSecond == Resolve(s.Sec, second)
        nextMinute == Resolve(s.Min, t.minute)
        nextHour   == Resolve(s.Hour, t.hour)
        nextDay    == Resolve(s.DayMonth, t.day)
        nextMonth  == Resolve(s.Month, t.month)
        dayOfMonthTime == Date(t.year, t.month + nextMonth, t.day + nextDay,
                               t.hour + nextHour, t.minute + nextMinute, second + nextSecond)
    IN  IF s.DayWeek.kind = "nil" \/ s.DayWeek.kind = "Everytime"
        THEN dayOfMonthTime
        ELSE LET nextWeekday == Resolve(s.DayWeek, Weekday(dayOfMonthTime))
             IN  Date(dayOfMonthTime.year, dayOfMonthTime.month,
                      dayOfMonthTime.day + nextWeekday, dayOfMonthTime.hour,
                      dayOfMonthTime.minute, dayOfMonthTime.second)

CronScheduleNext(s, t) ==
    LET second     == t.second + 1
        nextSecond == IF s.Sec = fixedSeconds
                      THEN Resolve(s.Sec, second) + 1
                      ELSE Resolve(s.Sec, second)
        nextMinute == Resolve(s.Min, t.minute)
        nextHour   == Resolve(s.Hour, t.hour)
        nextDay    == Resolve(s.DayMonth, t.day)
        nextMonth  == Resolve(s.Month, t.month)
        dayOfMonthTime == Date(t.year, t.month + nextMonth, t.day + nextDay,
                               t.hour + nextHour, t.minute + nextMinute, second + nextSecond)
    IN  IF s.DayWeek.kind = "nil" \/ s.DayWeek.kind = "Everytime"
        THEN dayOfMonthTime
        ELSE LET nextWeekday == Resolve(s.DayWeek, Weekday(dayOfMonthTime))
             IN  Date(dayOfMonthTime.year, dayOfMonthTime.month,
                      dayOfMonthTime.day + nextWeekday, dayOfMonthTime.hour,
                      dayOfMonthTime.minute, dayOfMonthTime.second)

(***************************************************************************)
(* Inputs of the two function-level specifications                         *)
(***************************************************************************)

\* strconv.Itoa, to write the lexemes of the sample expressions
RECURSIVE Digits(_)
Digits(n) == IF n < 10 THEN <<48 + n>> ELSE Digits(n \div 10) \o <<48 + (n % 10)>>

Num(n)    == [Type |-> "TokenAlphaNum", Value |-> Digits(n), Edges |-> <<>>]
Comma(n)  == [Type |-> "TokenComma", Value |-> <<44>>, Edges |-> <<Num(n)>>]
Dash(n)   == [Type |-> "TokenDash",  Value |-> <<45>>, Edges |-> <<Num(n)>>]
Slash(n)  == [Type |-> "TokenSlash", Value |-> <<47>>, Edges |-> <<Num(n)>>]
Star      == [Type |-> "TokenStar",  Value |-> <<42>>, Edges |-> <<>>]
StarBy(n) == [Type |-> "TokenStar",  Value |-> <<42>>, Edges |-> <<Slash(n)>>]
Field(n, edges) == [Type |-> "TokenAlphaNum", Value |-> Digits(n), Edges |-> edges]
\* alphanumeric nodes holding a name, and the node of an @ keyword
Name(value)   == [Type |-> "TokenAlphaNum", Value |-> value, Edges |-> <<>>]
CommaName(value) == [Type |-> "TokenComma", Value |-> <<44>>, Edges |-> <<Name(value)>>]
At(value)     == [Type |-> "TokenAt", Value |-> <<64>>, Edges |-> <<Name(value)>>]

ExprEverySecond == <<Star, Star, Star, Star, Star, Star>>                   \* "* * * * * *"
ExprSecRange    == <<Field(0, <<Dash(59)>>), Star, Star, Star, Star, Star>> \* "0-59 * * * * *"

\* the parse trees of the expressions the scheduler is exercised on
Exprs ==
    { ExprEverySecond,
      ExprSecRange,
      <<StarBy(5), Star, Star, Star, Star, Star>>,                          \* "*/5 * * * * *"
      <<Field(0, <<Slash(3), Comma(2)>>), Star, Star, Star, Star, Star>>,   \* "0/3,2 * * * * *"
      <<Num(30), Star, Star, Star, Star, Star>>,                            \* "30 * * * * *"
      <<Star, Star, Star, Star, Star>>,                                     \* "* * * * *"
      <<Num(0), Star, Star, Star, Star>>,                                   \* "0 * * * *"
      <<Num(0), Num(0), Star, Star, Star>>,                                 \* "0 0 * * *"
      <<Num(0), Num(0), Star, Star, Field(1, <<Dash(5)>>)>>,                \* "0 0 * * 1-5"
      <<Num(0), Num(0), Star, Star,
        Field(1, <<Comma(2), Comma(4), Comma(5)>>)>>,                       \* "0 0 * * 1,2,4,5"
      <<Num(0), StarBy(3), Star, Star, Star>>,                              \* "0 */3 * * *"
      <<Field(0, <<Dash(5)>>), Star, Star, Star, Star>>,                    \* "0-5 * * * *"
      <<Num(0), Num(0), Num(1), Star, Star>>,                               \* "0 0 1 * *"
      <<Num(0), Num(0), Star, Star, Num(0)>>,                               \* "0 0 * * 0"
      <<Num(0), Num(0), Star, Star, Num(7)>>,                               \* "0 0 * * 7"
      <<Num(0), Num(0), Star, Star, Field(5, <<Comma(7)>>)>>,               \* "0 0 * * 5,7"
      <<Num(0), Num(0), Star, Star, Field(0, <<Comma(7)>>)>>,               \* "0 0 * * 0,7"
      <<StarBy(0), Star, Star, Star, Star, Star>>,                          \* "*/0 * * * * *"
      <<Num(75), Star, Star, Star, Star>>,                                  \* "75 * * * *"
      <<Field(75, <<Comma(5)>>), Star, Star, Star, Star>>,                  \* "75,5 * * * *"
      <<Field(5, <<Comma(75)>>), Star, Star, Star, Star>>,                  \* "5,75 * * * *"
      <<Star, Num(24), Star, Star, Star>>,                                  \* "* 24 * * *"
      <<Star, Star, Star, Name(<<74,65,78>>), Star>>,                       \* "* * * JAN *"
      <<Star, Star, Star, Name(<<106,97,110>>), Star>>,                     \* "* * * jan *"
      <<Star, Star, Star, Star, Name(<<77,79,78>>)>>,                       \* "* * * * MON"
      <<Star, Star, Star, Field(1, <<CommaName(<<102,101,98>>)>>), Star>>,  \* "* * * 1,feb *"
      <<Star, Star, Star, Field(1, <<CommaName(<<70,79,79>>)>>), Star>>,    \* "* * * 1,FOO *"
      <<Star, Star, Star, Name(<<70,79,79>>), Star>>,                       \* "* * * FOO *"
      <<Name(<<74,65,78>>), Star, Star, Star, Star>>,                       \* "JAN * * * *"
      <<Field(1, <<CommaName(<<74,65,78>>)>>), Star, Star, Star, Star>>,    \* "1,JAN * * * *"
      <<At(<<100,97,105,108,121>>)>>,                                       \* "@daily"
      <<At(<<68,65,73,76,89>>)>>,                                           \* "@DAILY"
      <<At(<<87,101,101,107,108,121>>)>>,                                   \* "@Weekly"
      <<At(<<121,101,97,114,108,121>>)>>,                                   \* "@yearly"
      <<At(<<102,111,111>>)>>,                                              \* "@foo"
      <<Star>>,                                                             \* "*"
      <<Star, Star, Star, Star, Star, Star, Star>> }                        \* "* * * * * * *"

SampleDates ==
    { <<2023, 10, 30>>, <<2023, 10, 31>>, <<2023, 12, 31>>, <<2024, 2, 28>>, <<2024, 2, 29>> }
SampleHours   == {0, 10, 22, 23}
SampleMinutes == {0, 12, 59}
SampleSeconds == {0, 43, 45, 58, 59}

Instants ==
    { [year |-> d[1], month |-> d[2], day |-> d[3], hour |-> h, minute |-> m, second |-> sc] :
        d \in SampleDates, h \in SampleHours, m \in SampleMinutes, sc \in SampleSeconds }

\* largest target of the resolvers put under test, and their longest step list
MaxTarget == 3
MaxSteps  == 2

\* field maxima: the small ones, and the seconds/minutes field of the processor
Maxima == (1..MaxTarget) \cup {maxSec}

\* targets within a field of maximum m: the low values and the two highest
Targets(m) == { x \in (0..MaxTarget) \cup {m - 1, m} : x >= 0 /\ x <= m }

StepLists(m) == UNION { [1..n -> Targets(m)] : n \in 1..MaxSteps }

Resolvers ==
    {Everytime}
    \cup UNION { { FixedSchedule(m, a) : a \in Targets(m) } : m \in Maxima }
    \cup UNION { { RangeSchedule(m, f, t) : f \in Targets(m), t \in Targets(m) } : m \in Maxima }
    \cup UNION { { StepSchedule(m, st) : st \in StepLists(m) } : m \in Maxima }

\* what the processor builds from an expression whose values lie in the field: targets
\* within the field, ranges ascending, step lists sorted and free of duplicates
WellFormed(r) ==
    CASE r.kind = "Everytime"     -> TRUE
      [] r.kind = "FixedSchedule" -> r.At <= r.Max
      [] r.kind = "RangeSchedule" -> r.From <= r.To /\ r.To <= r.Max
      [] r.kind = "StepSchedule"  ->
            /\ \A i \in 1..Len(r.Steps) : r.Steps[i] <= r.Max
            /\ \A i \in 1..(Len(r.Steps) - 1) : r.Steps[i] < r.Steps[i + 1]

(***************************************************************************)
(* Runtime: runtime.Run, Selector.Next (non-blocking, one executor),       *)
(* Executable.Exec.  One tick of the clock is 50 ms.                       *)
(***************************************************************************)

MaxClock        == 10   \* ticks after which the clock is no longer advanced
MaxCalls        == 3    \* Selector.Next calls issued by the loop
NumRunners      == 2    \* runners registered in the executor
ErrBufferSize   == 1    \* the small capacity of runtime.err
SelectorTimeout == 1    \* the short Selector.timeout, in ticks
Period          == 4    \* the executor's schedule fires at every multiple of Period

minStepDuration == 1    \* 50 ms
bufferPeriod    == 2    \* 100 ms

\* what the runtime is built with: a selector timeout shorter than the schedule's period
\* and a channel that one error fills, or a timeout as long as the period (the default of
\* one second, for a schedule of every second) and a channel with room for a second error
Configs ==
    { [timeout |-> SelectorTimeout, size |-> ErrBufferSize],
      [timeout |-> Period, size |-> ErrBufferSize + 1] }

CtxErr == 0             \* ctx.Err(); the error of runner i is i

NoCall  == [id |-> 0, deadline |-> 0, localDone |-> FALSE, ret |-> nil, wake |-> 0]
\* a goroutine of Next: its place (state), the fire instant and the sleep deadline of its
\* Exec, the runner in progress, the runners called so far (ran) with what each one
\* returned (outs: TRUE for nil), the error of Exec, and what happened to it meanwhile:
\* the timeout left it behind (detached), the context was cancelled ahead of its timer
\* (early)
NewTask == [state |-> "wait", at |-> 0, wake |-> 0, idx |-> 0, ran |-> <<>>, outs |-> <<>>,
            errs |-> nil, detached |-> FALSE, early |-> FALSE]

\* states of a spawned goroutine in which its Exec call is in progress: waiting on the
\* timer, in the sleep that follows a late timer, inside runner idx
InExec == {"wait", "presleep", "run"}

\* a timer or sleep set for instant d has elapsed
Reached(d) == clock >= d

\* Scheduler.Next of the executor's schedule: the first fire instant after t
SchedNext(t) == (t \div Period + 1) * Period

\* localCtx.Done() of call c is closed: by its deadline, by the cancel() deferred in
\* Next, or by the parent context
LocalDone(c) == IF call.id = c THEN call.localDone ELSE TRUE

\* faulty variant of ExecCtxDone: the goroutine hands localCtx to Exec, so the per-call
\* timeout cancels the executor
ExecCtxDone_localCtx(c) == ctxDone \/ LocalDone(c)

\* faulty variant of ExecCtxDone: Exec never looks at its context
ExecCtxDone_never(c) == FALSE

\* Done() of the context handed to Exec by the goroutine of call c
ExecCtxDone(c) == ctxDone

\* faulty variant of PostSeesDone: the goroutine closes errCh whatever Exec returned
PostSeesDone_always(c) == TRUE

\* the goroutine's select after Exec returned takes the localCtx.Done() case
PostSeesDone(c) == LocalDone(c)

\* some goroutine can take a step that needs no time to pass: scheduling latency is
\* far below one tick, so the clock waits for it
StepPending ==
    \/ runPC = "loop" /\ ctxDone
    \/ runPC = "loop" /\ callSeq < MaxCalls
                      /\ clock + timeout + minStepDuration <= MaxClock
    \/ runPC = "next" /\ \/ call.localDone
                         \/ Reached(call.deadline)
                         \/ tasks[call.id].state \in {"sending", "closed"}
    \/ runPC = "sleep" /\ Reached(call.wake)
    \/ runPC = "send" /\ Len(errCh) < errCap
    \/ ctxDone /\ call.id # 0 /\ ~call.localDone
    \/ \E c \in 1..Len(tasks) :
          \/ tasks[c].state = "post"
          \/ tasks[c].state = "wait" /\ (Reached(tasks[c].at) \/ ExecCtxDone(c))
          \/ tasks[c].state = "presleep" /\ Reached(tasks[c].wake)

Tick ==
    /\ clock < MaxClock
    /\ ~StepPending
    /\ clock' = clock + 1
    /\ UNCHANGED <<ctxDone, runPC, errCh, received, callSeq, call, tasks, fired, returns, metrics>>

\* the caller cancels the context it passed to Run
Cancel ==
    /\ ~ctxDone
    /\ ctxDone' = TRUE
    /\ tasks' = [c \in DOMAIN tasks |->
                   [tasks[c] EXCEPT !.early = (tasks[c].state = "wait" /\ ~Reached(tasks[c].at))]]
    /\ UNCHANGED <<clock, runPC, errCh, received, callSeq, call, fired, returns, metrics>>

\* the cancellation reaches localCtx, a child of ctx
PropagateCancel ==
    /\ ctxDone /\ call.id # 0 /\ ~call.localDone
    /\ call' = [call EXCEPT !.localDone = TRUE]
    /\ UNCHANGED <<clock, ctxDone, runPC, errCh, received, callSeq, tasks, fired, returns, metrics>>

\* the registry behind the Metrics interfaces: a gauge and two counters
NoMetrics == [isUp |-> 0, selectCalls |-> 0, selectErrors |-> 0]

IncSelectorSelectCalls(m) == [m EXCEPT !.selectCalls = @ + 1]

IncSelectorSelectErrors(m) == [m EXCEPT !.selectErrors = @ + 1]

\* Run is called: r.metrics.IsUp(true); the schedule being periodic, only the phase of
\* the call matters
RunStart ==
    /\ runPC = "idle" /\ clock < Period
    /\ runPC' = "loop"
    /\ metrics' = [metrics EXCEPT !.isUp = 1]
    /\ UNCHANGED <<clock, ctxDone, errCh, received, callSeq, call, tasks, fired, returns>>

\* case <-ctx.Done(): return, and the deferred r.metrics.IsUp(false)
RunReturn ==
    /\ runPC = "loop" /\ ctxDone
    /\ runPC' = "done"
    /\ metrics' = [metrics EXCEPT !.isUp = 0]
    /\ UNCHANGED <<clock, ctxDone, errCh, received, callSeq, call, tasks, fired, returns>>

\* default: r.sel.Next(ctx), up to its select. The goroutine it spawns enters Exec,
\* which reads the clock, asks the schedule for next and arms the timer.
NextCall ==
    /\ runPC = "loop" /\ ~ctxDone
    /\ callSeq < MaxCalls
    /\ clock + timeout + minStepDuration <= MaxClock
    /\ callSeq' = callSeq + 1
    /\ call' = [NoCall EXCEPT !.id = callSeq + 1, !.deadline = clock + timeout]
    /\ tasks' = Append(tasks, [NewTask EXCEPT !.at = SchedNext(clock)])
    /\ runPC' = "next"
    /\ metrics' = IncSelectorSelectCalls(metrics)
    /\ UNCHANGED <<clock, ctxDone, errCh, received, fired, returns>>

\* the deadline of localCtx passes
TimeoutFire ==
    /\ runPC = "next" /\ ~call.localDone /\ Reached(call.deadline)
    /\ call' = [call EXCEPT !.localDone = TRUE]
    /\ tasks' = [tasks EXCEPT ![call.id].detached = (tasks[call.id].state \in InExec)]
    /\ UNCHANGED <<clock, ctxDone, runPC, errCh, received, callSeq, fired, returns, metrics>>

\* faulty variant of NextReturns: the deferred sleep lasts as long as the timeout
NextReturns_sleepTimeout(err) ==
    /\ call' = [call EXCEPT !.localDone = TRUE, !.ret = err,
                            !.wake = clock + minStepDuration + timeout]
    /\ returns' = Append(returns, err)
    /\ metrics' = IF err # nil THEN IncSelectorSelectCalls(metrics) ELSE metrics
    /\ runPC' = "sleep"

\* Next returns err: the deferred cancel() runs, then the deferred sleep starts
NextReturns(err) ==
    /\ call' = [call EXCEPT !.localDone = TRUE, !.ret = err, !.wake = clock + minStepDuration]
    /\ returns' = Append(returns, err)
    /\ metrics' = IF err # nil THEN IncSelectorSelectCalls(metrics) ELSE metrics
    /\ runPC' = "sleep"

\* case <-localCtx.Done(): return nil
NextDone ==
    /\ runPC = "next" /\ call.localDone
    /\ NextReturns(nil)
    /\ UNCHANGED <<clock, ctxDone, errCh, received, callSeq, tasks, fired>>

\* case err, ok := <-errCh, the goroutine being at its send
NextRecv ==
    /\ runPC = "next" /\ tasks[call.id].state = "sending"
    /\ NextReturns(tasks[call.id].errs)
    /\ tasks' = [tasks EXCEPT ![call.id].state = "sent"]
    /\ UNCHANGED <<clock, ctxDone, errCh, received, callSeq, fired>>

\* case err, ok := <-errCh, the goroutine having closed errCh
NextClosed ==
    /\ runPC = "next" /\ tasks[call.id].state = "closed"
    /\ NextReturns(nil)
    /\ UNCHANGED <<clock, ctxDone, errCh, received, callSeq, tasks, fired>>

\* faulty variant of SleepDone: Run posts whatever Next returned, nil included
SleepDone_noNilCheck ==
    /\ runPC = "sleep" /\ Reached(call.wake)
    /\ IF Len(errCh) < errCap
       THEN /\ runPC' = "loop" /\ call' = NoCall
            /\ errCh' = Append(errCh, [call |-> call.id, err |-> call.ret])
       ELSE runPC' = "send" /\ call' = call /\ errCh' = errCh
    /\ UNCHANGED <<clock, ctxDone, received, callSeq, tasks, fired, returns, metrics>>

\* the deferred time.Sleep(minStepDuration) ends, Next returns to Run, and Run executes
\* "if err != nil { r.err <- err }": the send completes when the buffer has room,
\* otherwise Run stays at the send
SleepDone ==
    /\ runPC = "sleep" /\ Reached(call.wake)
    /\ IF call.ret = nil
       THEN runPC' = "loop" /\ call' = NoCall /\ errCh' = errCh
       ELSE IF Len(errCh) < errCap
       THEN /\ runPC' = "loop" /\ call' = NoCall
            /\ errCh' = Append(errCh, [call |-> call.id, err |-> call.ret])
       ELSE runPC' = "send" /\ call' = call /\ errCh' = errCh
    /\ UNCHANGED <<clock, ctxDone, received, callSeq, tasks, fired, returns, metrics>>

\* r.err <- err completes once a consumer has made room
ErrSend ==
    /\ runPC = "send" /\ Len(errCh) < errCap
    /\ errCh' = Append(errCh, [call |-> call.id, err |-> call.ret])
    /\ runPC' = "loop"
    /\ call' = NoCall
    /\ UNCHANGED <<clock, ctxDone, received, callSeq, tasks, fired, returns, metrics>>

\* faulty variant of ConsumerRecv: the channel hands out the error posted last
ConsumerRecv_newestFirst ==
    /\ errCh # <<>>
    /\ received' = Append(received, errCh[Len(errCh)])
    /\ errCh' = SubSeq(errCh, 1, Len(errCh) - 1)
    /\ UNCHANGED <<clock, ctxDone, runPC, callSeq, call, tasks, fired, returns, metrics>>

\* a consumer receives from Err()
ConsumerRecv ==
    /\ errCh # <<>>
    /\ received' = Append(received, Head(errCh))
    /\ errCh' = Tail(errCh)
    /\ UNCHANGED <<clock, ctxDone, runPC, callSeq, call, tasks, fired, returns, metrics>>

\* case <-ctx.Done(): return ctx.Err()
ExecCtxReturn(c) ==
    /\ tasks[c].state = "wait" /\ ExecCtxDone(c)
    /\ tasks' = [tasks EXCEPT ![c].state = "post", ![c].errs = <<CtxErr>>]
    /\ UNCHANGED <<clock, ctxDone, runPC, errCh, received, callSeq, call, fired, returns, metrics>>

\* case <-timer.C: sleep when time.Since(next) > 0, else call the first runner
TimerFire(c) ==
    /\ tasks[c].state = "wait" /\ Reached(tasks[c].at)
    /\ \E late \in BOOLEAN :
          /\ clock > tasks[c].at => late
          /\ IF late
             THEN /\ tasks' = [tasks EXCEPT ![c].state = "presleep",
                                  ![c].wake = clock - tasks[c].at + bufferPeriod + clock]
                  /\ fired' = fired
             ELSE /\ tasks' = [tasks EXCEPT ![c].state = "run", ![c].idx = 1, ![c].ran = <<1>>]
                  /\ fired' = fired \cup {<<c, tasks[c].at, 1>>}
    /\ UNCHANGED <<clock, ctxDone, runPC, errCh, received, callSeq, call, returns, metrics>>

\* time.Sleep(preTriggerDuration + bufferPeriod) ends and the first runner is called
PreSleepDone(c) ==
    /\ tasks[c].state = "presleep" /\ Reached(tasks[c].wake)
    /\ tasks' = [tasks EXCEPT ![c].state = "run", ![c].idx = 1, ![c].ran = <<1>>]
    /\ fired' = fired \cup {<<c, tasks[c].at, 1>>}
    /\ UNCHANGED <<clock, ctxDone, runPC, errCh, received, callSeq, call, returns, metrics>>

\* faulty variant of RunnerFinish: Exec returns at the first runner that fails
RunnerFinish_stopAtError(c) ==
    /\ tasks[c].state = "run"
    /\ \E ok \in BOOLEAN :
          LET errs == IF ok THEN tasks[c].errs ELSE Append(tasks[c].errs, tasks[c].idx)
              outs == Append(tasks[c].outs, ok)
          IN  IF tasks[c].idx = NumRunners \/ ~ok
              THEN /\ tasks' = [tasks EXCEPT ![c].state = "post", ![c].errs = errs,
                                             ![c].outs = outs]
                   /\ fired' = fired
              ELSE /\ tasks' = [tasks EXCEPT ![c].idx = tasks[c].idx + 1, ![c].errs = errs,
                                             ![c].outs = outs,
                                             ![c].ran = Append(tasks[c].ran, tasks[c].idx + 1)]
                   /\ fired' = fired \cup {<<c, tasks[c].at, tasks[c].idx + 1>>}
    /\ UNCHANGED <<clock, ctxDone, runPC, errCh, received, callSeq, call, returns, metrics>>

\* runner idx returns, with or without an error; the next runner is called, or after the
\* last one Exec returns errors.Join(runnerErrs...)
RunnerFinish(c) ==
    /\ tasks[c].state = "run"
    /\ \E ok \in BOOLEAN :
          LET errs == IF ok THEN tasks[c].errs ELSE Append(tasks[c].errs, tasks[c].idx)
              outs == Append(tasks[c].outs, ok)
          IN  IF tasks[c].idx = NumRunners
              THEN /\ tasks' = [tasks EXCEPT ![c].state = "post", ![c].errs = errs,
                                             ![c].outs = outs]
                   /\ fired' = fired
              ELSE /\ tasks' = [tasks EXCEPT ![c].idx = tasks[c].idx + 1, ![c].errs = errs,
                                             ![c].outs = outs,
                                             ![c].ran = Append(tasks[c].ran, tasks[c].idx + 1)]
                   /\ fired' = fired \cup {<<c, tasks[c].at, tasks[c].idx + 1>>}
    /\ UNCHANGED <<clock, ctxDone, runPC, errCh, received, callSeq, call, returns, metrics>>

\* the goroutine's select: case <-localCtx.Done(): close(errCh)
PostClose(c) ==
    /\ tasks[c].state = "post" /\ PostSeesDone(c)
    /\ tasks' = [tasks EXCEPT ![c].state = "closed"]
    /\ UNCHANGED <<clock, ctxDone, runPC, errCh, received, callSeq, call, fired, returns, metrics>>

\* the goroutine's select: default: errCh <- err, which waits for the receiver
PostSend(c) ==
    /\ tasks[c].state = "post" /\ ~PostSeesDone(c)
    /\ tasks' = [tasks EXCEPT ![c].state = "sending"]
    /\ UNCHANGED <<clock, ctxDone, runPC, errCh, received, callSeq, call, fired, returns, metrics>>

InitRun ==
    /\ clock = 0
    /\ ctxDone = FALSE
    /\ runPC = "idle"
    /\ errCh = <<>>
    /\ received = <<>>
    /\ callSeq = 0
    /\ call = NoCall
    /\ tasks = <<>>
    /\ fired = {}
    /\ returns = <<>>
    /\ metrics = NoMetrics

InitResolveIdle == res = Everytime /\ val = 0 /\ out = 0

InitSchedIdle ==
    /\ expr = ExprEverySecond
    /\ sched = [err |-> nil, s |-> ZeroSchedule]
    /\ now = [year |-> 1970, month |-> 1, day |-> 1, hour |-> 0, minute |-> 0, second |-> 0]
    /\ nextAt = now

NoSize  == [set |-> FALSE, size |-> 0]
NoBuild == [by |-> "none", kind |-> "none", err |-> nil, size |-> 0]

InitBuildIdle ==
    /\ opts = [size |-> NoSize, sel |-> FALSE, jobs |-> <<>>]
    /\ built = NoBuild
    /\ ran = "no"

NoSelector == [err |-> nil, timeout |-> 0]

InitNewSelIdle ==
    /\ selOpts = [execs |-> 0, timeouts |-> <<>>]
    /\ selector = NoSelector

InitBuilderIdle ==
    /\ resolvers = <<>>
    /\ schedule = [err |-> nil, s |-> ZeroSchedule]

NoExecutable == [by |-> "none", err |-> nil, runners |-> <<>>]
NoExecCall   == [pc |-> "idle", now |-> 0, next |-> 0, wake |-> 0, i |-> 0, errs |-> nil,
                 started |-> <<>>]

InitExecIdle ==
    /\ runnerArgs = <<>>
    /\ executable = NoExecutable
    /\ execCall = NoExecCall

InitSelectIdle ==
    /\ selExec = <<>> /\ selNow = 0 /\ picked = <<>> /\ spawned = <<>>
    /\ timeout = SelectorTimeout
    /\ errCap = ErrBufferSize
    /\ execOut = <<>> /\ multiErrs = nil /\ selRet = nil

Init ==
    /\ InitRun /\ InitResolveIdle /\ InitSchedIdle /\ InitBuildIdle
    /\ InitNewSelIdle /\ InitBuilderIdle /\ InitExecIdle
    /\ selExec = <<Period>> /\ selNow = 0 /\ picked = <<>> /\ spawned = <<>>
    /\ execOut = <<"idle">> /\ multiErrs = nil /\ selRet = nil
    /\ \E cf \in Configs : timeout = cf.timeout /\ errCap = cf.size
    /\ stage = "input"

GoroutineStep(c) ==
    \/ ExecCtxReturn(c)
    \/ TimerFire(c)
    \/ PreSleepDone(c)
    \/ RunnerFinish(c)
    \/ PostClose(c)
    \/ PostSend(c)

RunStep ==
    \/ RunStart
    \/ RunReturn
    \/ NextCall
    \/ NextDone
    \/ NextRecv
    \/ NextClosed
    \/ SleepDone
    \/ ErrSend

Next ==
    \/ (Tick /\ UNCHANGED <<resolveVars, schedVars, selVars, buildVars, newSelVars, builderVars, execVars, errCap, stage>>)
    \/ (Cancel /\ UNCHANGED <<resolveVars, schedVars, selVars, buildVars, newSelVars, builderVars, execVars, errCap, stage>>)
    \/ (PropagateCancel /\ UNCHANGED <<resolveVars, schedVars, selVars, buildVars, newSelVars, builderVars, execVars, errCap, stage>>)
    \/ (TimeoutFire /\ UNCHANGED <<resolveVars, schedVars, selVars, buildVars, newSelVars, builderVars, execVars, errCap, stage>>)
    \/ (RunStep /\ UNCHANGED <<resolveVars, schedVars, selVars, buildVars, newSelVars, builderVars, execVars, errCap, stage>>)
    \/ (ConsumerRecv /\ UNCHANGED <<resolveVars, schedVars, selVars, buildVars, newSelVars, builderVars, execVars, errCap, stage>>)
    \/ (\E c \in 1..Len(tasks) : GoroutineStep(c) /\ UNCHANGED <<resolveVars, schedVars, selVars, buildVars, newSelVars, builderVars, execVars, errCap, stage>>)

Spec == Init /\ [][Next]_vars

\* the Go scheduler runs every goroutine that can take a step and every timer that is due
\* fires; the caller need neither cancel nor receive from Err()
Fairness ==
    /\ WF_vars(Tick /\ UNCHANGED <<resolveVars, schedVars, selVars, buildVars, newSelVars, builderVars, execVars, errCap, stage>>)
    /\ WF_vars(PropagateCancel /\ UNCHANGED <<resolveVars, schedVars, selVars, buildVars, newSelVars, builderVars, execVars, errCap, stage>>)
    /\ WF_vars(TimeoutFire /\ UNCHANGED <<resolveVars, schedVars, selVars, buildVars, newSelVars, builderVars, execVars, errCap, stage>>)
    /\ WF_vars(RunStep /\ UNCHANGED <<resolveVars, schedVars, selVars, buildVars, newSelVars, builderVars, execVars, errCap, stage>>)
    /\ WF_vars(\E c \in 1..Len(tasks) : GoroutineStep(c) /\ UNCHANGED <<resolveVars, schedVars, selVars, buildVars, newSelVars, builderVars, execVars, errCap, stage>>)

FairSpec == Spec /\ Fairness

\* the same, with a consumer that keeps receiving from Err()
FairSpecDrained ==
    FairSpec /\ WF_vars(ConsumerRecv /\ UNCHANGED <<resolveVars, schedVars, selVars, buildVars, newSelVars, builderVars, execVars, errCap, stage>>)

(***************************************************************************)
(* SpecResolve: one resolver, one value, one Resolve call                  *)
(***************************************************************************)

InitResolve ==
    /\ InitRun /\ InitSchedIdle /\ InitSelectIdle /\ InitBuildIdle
    /\ InitNewSelIdle /\ InitBuilderIdle /\ InitExecIdle
    /\ stage = "input"
    /\ res \in {r \in Resolvers : WellFormed(r)}
    /\ val \in 0..(res.Max + 1)
    /\ out = 0

ResolveCall ==
    /\ stage = "input"
    /\ out' = Resolve(res, val)
    /\ stage' = "resolved"
    /\ UNCHANGED <<res, val, schedVars, runVars, metrics, selVars, buildVars, newSelVars, builderVars, execVars>>

NextResolve == ResolveCall

SpecResolve == InitResolve /\ [][NextResolve]_vars

(***************************************************************************)
(* SpecSched: ProcessFunc on a parse tree, then CronSchedule.Next          *)
(***************************************************************************)

InitSched ==
    /\ InitRun /\ InitResolveIdle /\ InitSelectIdle /\ InitBuildIdle
    /\ InitNewSelIdle /\ InitBuilderIdle /\ InitExecIdle
    /\ stage = "input"
    /\ expr \in Exprs
    /\ now \in Instants
    /\ sched = [err |-> nil, s |-> ZeroSchedule]
    /\ nextAt = now

\* cronlex.Parse, from the parse tree on
ParseCall ==
    /\ stage = "input"
    /\ sched' = ProcessFunc(expr)
    /\ stage' = "parsed"
    /\ UNCHANGED <<expr, now, nextAt, resolveVars, runVars, metrics, selVars, buildVars, newSelVars, builderVars, execVars>>

\* CronSchedule.Next on the parsed schedule; New returns no scheduler on a parse error
SchedulerNext ==
    /\ stage = "parsed" /\ sched.err = nil
    /\ nextAt' = CronScheduleNext(sched.s, now)
    /\ stage' = "scheduled"
    /\ UNCHANGED <<expr, sched, now, resolveVars, runVars, metrics, selVars, buildVars, newSelVars, builderVars, execVars>>

NextSched == ParseCall \/ SchedulerNext

SpecSched == InitSched /\ [][NextSched]_vars

(***************************************************************************)
(* SpecSelect: one step of the blocking selector over its executors        *)
(***************************************************************************)

MaxExecs  == 3
MaxPeriod == 3
MaxSelNow == 3

\* Executable.Next: the schedule's next instant after t, for a schedule
\* that fires on every multiple of `period`
ExecutableNext(period, t) == (t \div period + 1) * period

RECURSIVE nextLoop_keepOnEarlier(_, _, _, _, _)
nextLoop_keepOnEarlier(execs, at, i, next, exec) ==
    IF i > Len(execs) THEN exec
    ELSE LET t == ExecutableNext(execs[i], at) - at
         IN  IF i = 1 THEN nextLoop_keepOnEarlier(execs, at, i + 1, t, Append(exec, i))
             ELSE IF t = next THEN nextLoop_keepOnEarlier(execs, at, i + 1, next, Append(exec, i))
             ELSE IF t < next THEN nextLoop_keepOnEarlier(execs, at, i + 1, t, Append(exec, i))
             ELSE nextLoop_keepOnEarlier(execs, at, i + 1, next, exec)

\* the loop of Selector.next and of blockingSelector.next (the same code):
\* `next` is the shortest wait seen so far, `exec` the executors that have it
RECURSIVE nextLoop(_, _, _, _, _)
nextLoop(execs, at, i, next, exec) ==
    IF i > Len(execs) THEN exec
    ELSE LET t == ExecutableNext(execs[i], at) - at
         IN  IF i = 1 THEN nextLoop(execs, at, i + 1, t, Append(exec, i))
             ELSE IF t = next THEN nextLoop(execs, at, i + 1, next, Append(exec, i))
             ELSE IF t < next THEN nextLoop(execs, at, i + 1, t, <<i>>)
             ELSE nextLoop(execs, at, i + 1, next, exec)

selectorNext(execs, at) == nextLoop(execs, at, 1, 0, <<>>)

InitSelect ==
    /\ InitRun /\ InitResolveIdle /\ InitSchedIdle /\ InitBuildIdle
    /\ InitNewSelIdle /\ InitBuilderIdle /\ InitExecIdle
    /\ stage = "input"
    /\ selExec \in UNION { [1..n -> 1..MaxPeriod] : n \in 1..MaxExecs }
    /\ selNow \in 0..MaxSelNow
    /\ picked = <<>>
    /\ spawned = <<>>
    /\ timeout = SelectorTimeout
    /\ errCap = ErrBufferSize
    /\ execOut = [i \in 1..Len(selExec) |-> "idle"]
    /\ multiErrs = nil
    /\ selRet = nil

\* Next with one executor: s.exec[0].Exec(ctx)
SelectSingle ==
    /\ stage = "input" /\ Len(selExec) = 1
    /\ picked' = <<1>>
    /\ spawned' = <<1>>
    /\ execOut' = [execOut EXCEPT ![1] = "running"]
    /\ stage' = "dispatched"
    /\ metrics' = IncSelectorSelectCalls(metrics)
    /\ UNCHANGED <<selExec, selNow, timeout, multiErrs, selRet, resolveVars, schedVars, runVars, buildVars, newSelVars, builderVars, execVars>>

\* Next with several executors: the argument of executor.Multi
SelectNext ==
    /\ stage = "input" /\ Len(selExec) > 1
    /\ picked' = selectorNext(selExec, selNow)
    /\ stage' = "selected"
    /\ metrics' = IncSelectorSelectCalls(metrics)
    /\ UNCHANGED <<selExec, selNow, spawned, timeout, execOut, multiErrs, selRet,
                   resolveVars, schedVars, runVars, buildVars, newSelVars, builderVars, execVars>>

\* executor.Multi: one goroutine per executor handed in, started in slice order
MultiSpawn ==
    /\ stage = "selected"
    /\ spawned' = Append(spawned, picked[Len(spawned) + 1])
    /\ execOut' = [execOut EXCEPT ![picked[Len(spawned) + 1]] = "running"]
    /\ stage' = IF Len(spawned) + 1 = Len(picked) THEN "dispatched" ELSE "selected"
    /\ UNCHANGED <<selExec, selNow, picked, timeout, multiErrs, selRet, metrics,
                   resolveVars, schedVars, runVars, buildVars, newSelVars, builderVars, execVars>>

\* faulty variant of ExecReturn: errs is appended to without the mutex, so an append
\* can overwrite the slot another goroutine has just written
ExecReturn_noMutex(i) ==
    /\ stage \in {"selected", "dispatched"}
    /\ execOut[i] = "running"
    /\ \E ok \in BOOLEAN, raced \in BOOLEAN :
          /\ execOut' = [execOut EXCEPT ![i] = IF ok THEN "ok" ELSE "failed"]
          /\ multiErrs' = IF ok THEN multiErrs
                          ELSE IF raced /\ multiErrs # nil
                               THEN Append(SubSeq(multiErrs, 1, Len(multiErrs) - 1), i)
                               ELSE Append(multiErrs, i)
    /\ UNCHANGED <<selExec, selNow, picked, spawned, timeout, selRet, stage, metrics,
                   resolveVars, schedVars, runVars, buildVars, newSelVars, builderVars, execVars>>

\* the Exec call of executor i returns, with its error (i) or without; in Multi a failure
\* is appended to errs under the mutex
ExecReturn(i) ==
    /\ stage \in {"selected", "dispatched"}
    /\ execOut[i] = "running"
    /\ \E ok \in BOOLEAN :
          /\ execOut' = [execOut EXCEPT ![i] = IF ok THEN "ok" ELSE "failed"]
          /\ multiErrs' = IF ok THEN multiErrs ELSE Append(multiErrs, i)
    /\ UNCHANGED <<selExec, selNow, picked, spawned, timeout, selRet, stage, metrics,
                   resolveVars, schedVars, runVars, buildVars, newSelVars, builderVars, execVars>>

\* faulty variant of BlockingReturn: Multi does not wait for its goroutines
BlockingReturn_noWait ==
    /\ stage = "dispatched"
    /\ selRet' = multiErrs
    /\ metrics' = IF multiErrs # nil THEN IncSelectorSelectCalls(metrics) ELSE metrics
    /\ stage' = "returned"
    /\ UNCHANGED <<selExec, selNow, picked, spawned, timeout, execOut, multiErrs,
                   resolveVars, schedVars, runVars, buildVars, newSelVars, builderVars, execVars>>

\* blockingSelector.Next returns: the Exec call has returned, or wg.Wait() has let Multi
\* return errors.Join(errs...)
BlockingReturn ==
    /\ stage = "dispatched"
    /\ \A k \in 1..Len(spawned) : execOut[spawned[k]] # "running"
    /\ selRet' = multiErrs
    /\ metrics' = IF multiErrs # nil THEN IncSelectorSelectCalls(metrics) ELSE metrics
    /\ stage' = "returned"
    /\ UNCHANGED <<selExec, selNow, picked, spawned, timeout, execOut, multiErrs,
                   resolveVars, schedVars, runVars, buildVars, newSelVars, builderVars, execVars>>

NextSelect ==
    \/ SelectSingle
    \/ SelectNext
    \/ MultiSpawn
    \/ \E i \in 1..Len(selExec) : ExecReturn(i)
    \/ BlockingReturn

SpecSelect == InitSelect /\ [][NextSelect]_vars

(***************************************************************************)
(* SpecBuild: New on a set of options, then Run on what it returned        *)
(***************************************************************************)

minBufferSize     == 64
defaultBufferSize == 1024

MaxJobs == 2

\* sizes handed to WithErrorBufferSize: around zero, around the floor, around the default
SampleSizes == {-1, 0, 1, minBufferSize - 1, minBufferSize, minBufferSize + 1,
                defaultBufferSize, defaultBufferSize + 1}

SizeOptions == {NoSize} \cup { [set |-> TRUE, size |-> n] : n \in SampleSizes }

\* jobs handed to WithJob: "* * * * * *" or "@foo", with or without a runner
Jobs == { [cron |-> c, runners |-> n] : c \in {ExprEverySecond, <<At(<<102,111,111>>)>>}, n \in 0..1 }

BuildInputs ==
    { [size |-> sz, sel |-> sl, jobs |-> js] :
        sz \in SizeOptions, sl \in BOOLEAN, js \in UNION { [1..n -> Jobs] : n \in 0..MaxJobs } }

defaultConfig == [errBufferSize |-> minBufferSize, sel |-> FALSE, execs |-> 0]

WithErrorBufferSize(size, config) ==
    [config EXCEPT !.errBufferSize = IF size < 0 THEN defaultBufferSize ELSE size]

\* executor.New fails without runners and when the cron string does not parse; WithJob
\* then is a no-op option
WithJob(job, config) ==
    IF job.runners = 0 THEN config
    ELSE IF ProcessFunc(job.cron).err # nil THEN config
    ELSE [config EXCEPT !.execs = @ + 1]

RECURSIVE withJobs(_, _, _)
withJobs(jobs, i, config) ==
    IF i > Len(jobs) THEN config ELSE withJobs(jobs, i + 1, WithJob(jobs[i], config))

\* cfg.Set(defaultConfig(), options...)
cfgSet(o) ==
    LET sized == IF o.size.set THEN WithErrorBufferSize(o.size.size, defaultConfig)
                 ELSE defaultConfig
    IN  withJobs(o.jobs, 1, [sized EXCEPT !.sel = o.sel])

newRuntime(config) ==
    IF ~config.sel /\ config.execs = 0
    THEN [by |-> "newRuntime", kind |-> "noop",
          err |-> <<"ErrEmptySelector", "ErrEmptyExecutorsList">>, size |-> 0]
    ELSE [by |-> "newRuntime", kind |-> "runtime", err |-> nil,
          size |-> IF config.errBufferSize < minBufferSize THEN defaultBufferSize
                   ELSE config.errBufferSize]

\* New of the package whose options act on *Runtime: a selector is the only way in, and
\* the channel is made by defaultRuntime or by WithErrorBufferSize
validate(o) ==
    IF ~o.sel
    THEN [by |-> "validate", kind |-> "nil", err |-> <<"ErrEmptySelector">>, size |-> 0]
    ELSE [by |-> "validate", kind |-> "runtime", err |-> nil,
          size |-> IF ~o.size.set THEN minBufferSize
                   ELSE IF o.size.size < 0 THEN defaultBufferSize ELSE o.size.size]

InitBuild ==
    /\ InitRun /\ InitResolveIdle /\ InitSchedIdle /\ InitSelectIdle
    /\ InitNewSelIdle /\ InitBuilderIdle /\ InitExecIdle
    /\ stage = "input"
    /\ opts \in BuildInputs
    /\ built = NoBuild
    /\ ran = "no"

\* New(options...) returning (Runtime, error)
NewConfig ==
    /\ stage = "input"
    /\ built' = newRuntime(cfgSet(opts))
    /\ stage' = "built"
    /\ UNCHANGED <<opts, ran, resolveVars, schedVars, runVars, metrics, selVars,
                   newSelVars, builderVars, execVars>>

\* New(options...) returning (*Runtime, error); this package has no WithJob
NewRuntimeOptions ==
    /\ stage = "input" /\ opts.jobs = <<>>
    /\ built' = validate(opts)
    /\ stage' = "built"
    /\ UNCHANGED <<opts, ran, resolveVars, schedVars, runVars, metrics, selVars,
                   newSelVars, builderVars, execVars>>

\* the caller calls Run on the runtime New returned: the no-op returns at once, a
\* runtime enters its loop, and a nil *Runtime is dereferenced at r.tracer
RunBuilt ==
    /\ stage = "built"
    /\ ran' = CASE built.kind = "noop"    -> "returned"
                [] built.kind = "runtime" -> "running"
                [] built.kind = "nil"     -> "panicked"
    /\ stage' = "ran"
    /\ UNCHANGED <<opts, built, resolveVars, schedVars, runVars, metrics, selVars,
                   newSelVars, builderVars, execVars>>

NextBuild == NewConfig \/ NewRuntimeOptions \/ RunBuilt

SpecBuild == InitBuild /\ [][NextBuild]_vars

(***************************************************************************)
(* SpecNewSelector: selector.New on a set of options                       *)
(***************************************************************************)

TickMs         == 50    \* one tick of the clock, in milliseconds
defaultTimeout == 20    \* time.Second, in ticks
MaxTimeoutOpts == 2

\* durations handed to WithTimeout, in ms: around zero, around the step duration,
\* around the default
SampleTimeouts == {-3, 0, 1, 30, TickMs - 1, TickMs, TickMs + 1, 100, 1000, 2000}

SelectorInputs ==
    { [execs |-> n, timeouts |-> ts] :
        n \in 0..1, ts \in UNION { [1..k -> SampleTimeouts] : k \in 0..MaxTimeoutOpts } }

\* defaultConfig of the selector: the timeout is the zero duration
selectorDefaultConfig == [timeout |-> 0]

WithTimeout(dur, config) ==
    IF dur <= 0 THEN config ELSE [config EXCEPT !.timeout = dur]

RECURSIVE withTimeouts(_, _, _)
withTimeouts(durs, i, config) ==
    IF i > Len(durs) THEN config ELSE withTimeouts(durs, i + 1, WithTimeout(durs[i], config))

\* selector.New, after cfg.Set(defaultConfig(), options...)
selectorNew(execs, config) ==
    IF execs = 0
    THEN [err |-> <<"ErrEmptyExecutorsList">>, timeout |-> 0]
    ELSE [err |-> nil,
          timeout |-> IF config.timeout < minStepDuration * TickMs
                      THEN defaultTimeout * TickMs
                      ELSE config.timeout]

InitNewSelector ==
    /\ InitRun /\ InitResolveIdle /\ InitSchedIdle /\ InitSelectIdle /\ InitBuildIdle
    /\ InitBuilderIdle /\ InitExecIdle
    /\ stage = "input"
    /\ selOpts \in SelectorInputs
    /\ selector = NoSelector

SelectorNew ==
    /\ stage = "input"
    /\ selector' = selectorNew(selOpts.execs, withTimeouts(selOpts.timeouts, 1, selectorDefaultConfig))
    /\ stage' = "built"
    /\ UNCHANGED <<selOpts, resolveVars, schedVars, runVars, metrics, selVars, buildVars,
                   builderVars, execVars>>

NextNewSelector == SelectorNew

SpecNewSelector == InitNewSelector /\ [][NextNewSelector]_vars

(***************************************************************************)
(* SpecBuilder: builder.Build on a list of resolvers                       *)
(***************************************************************************)

\* the categories of a builder Resolver
seconds   == 0
minutes   == 1
hours     == 2
monthDays == 3
months    == 4
weekdays  == 5

Categories == seconds..weekdays

minSecond  == 0
minMinute  == 0
minHour    == 0
minDay     == 1
minMonth   == 1
minWeekday == 0

categoryMin(c) ==
    CASE c = seconds   -> minSecond
      [] c = minutes   -> minMinute
      [] c = hours     -> minHour
      [] c = monthDays -> minDay
      [] c = months    -> minMonth
      [] c = weekdays  -> minWeekday

categoryMax(c) ==
    CASE c = seconds   -> maxSec
      [] c = minutes   -> maxMin
      [] c = hours     -> maxHour
      [] c = monthDays -> maxDay
      [] c = months    -> maxMonth
      [] c = weekdays  -> maxWeekday

\* what the caller passes for a category: nothing, All(), Every(min + 1),
\* Range(min, min + 2) or Every(max + 1), the last being out of bounds
ResolverChoices(c) ==
    << Everytime,
       FixedSchedule(categoryMax(c), categoryMin(c) + 1),
       RangeSchedule(categoryMax(c), categoryMin(c), categoryMin(c) + 2),
       FixedSchedule(categoryMax(c), categoryMax(c) + 1) >>

\* the resolvers of the choice f, one per category at most, in category order
RECURSIVE resolverList(_, _)
resolverList(f, c) ==
    IF c > weekdays THEN <<>>
    ELSE IF f[c] = 0 THEN resolverList(f, c + 1)
    ELSE <<[category |-> c, resolver |-> ResolverChoices(c)[f[c]]]>> \o resolverList(f, c + 1)

\* validate of the builder: the bounds of a resolver against its category
validateBounds(r, minimum) ==
    CASE r.kind = "Everytime" -> nil
      [] r.kind = "FixedSchedule" ->
            IF r.At < minimum \/ r.At > r.Max THEN <<"ErrOutOfBounds">> ELSE nil
      [] r.kind = "RangeSchedule" ->
            LET err == IF r.From < minimum \/ r.From > r.Max THEN <<"ErrOutOfBounds">> ELSE nil
            IN  IF r.To < minimum \/ r.To > r.Max THEN Join(err, <<"ErrOutOfBounds">>) ELSE err
      [] r.kind = "StepSchedule" ->
            LET bad == { i \in 1..Len(r.Steps) : r.Steps[i] < minimum \/ r.Steps[i] > r.Max }
            IN  [k \in 1..Cardinality(bad) |-> "ErrOutOfBounds"]
      [] OTHER -> <<"ErrInvalidResolver">>

validateResolver(r) ==
    IF r.category \in Categories
    THEN validateBounds(r.resolver, categoryMin(r.category))
    ELSE <<"ErrInvalidCategory">>

\* the switch of Build on the category
setResolver(s, r) ==
    CASE r.category = seconds   -> [s EXCEPT !.Sec = r.resolver]
      [] r.category = minutes   -> [s EXCEPT !.Min = r.resolver]
      [] r.category = hours     -> [s EXCEPT !.Hour = r.resolver]
      [] r.category = monthDays -> [s EXCEPT !.DayMonth = r.resolver]
      [] r.category = months    -> [s EXCEPT !.Month = r.resolver]
      [] r.category = weekdays  -> [s EXCEPT !.DayWeek = r.resolver]

populateMinutes(start, s) ==
    IF s.Min = NilResolver /\ ~start
    THEN [start |-> start, s |-> [s EXCEPT !.Min = FixedSchedule(maxMin, minMinute)]]
    ELSE IF s.Min = NilResolver
    THEN [start |-> start, s |-> [s EXCEPT !.Min = Everytime]]
    ELSE [start |-> TRUE, s |-> s]

populateHours(start, s) ==
    IF s.Hour = NilResolver /\ ~start
    THEN [start |-> start, s |-> [s EXCEPT !.Hour = FixedSchedule(maxHour, minHour)]]
    ELSE IF s.Hour = NilResolver
    THEN [start |-> start, s |-> [s EXCEPT !.Hour = Everytime]]
    ELSE [start |-> TRUE, s |-> s]

populateDays(start, s) ==
    LET start2 == start \/ s.DayMonth # NilResolver
        s2 == IF s.DayMonth = NilResolver /\ ~start
              THEN [s EXCEPT !.DayMonth = FixedSchedule(maxDay, minDay)]
              ELSE IF s.DayMonth = NilResolver
              THEN [s EXCEPT !.DayMonth = Everytime]
              ELSE s
        s3 == IF s2.Month = NilResolver /\ ~start2
              THEN [s2 EXCEPT !.Month = FixedSchedule(maxMonth, minMonth)]
              ELSE IF s2.Month = NilResolver
              THEN [s2 EXCEPT !.Month = Everytime]
              ELSE s2
    IN  [s3 EXCEPT !.DayWeek = Everytime]

populateWeekdays(start, s) ==
    LET s2 == [s EXCEPT !.DayMonth = Everytime, !.Month = Everytime]
    IN  IF s2.DayWeek = NilResolver /\ ~start
        THEN [s2 EXCEPT !.DayWeek = FixedSchedule(maxWeekday, minWeekday)]
        ELSE IF s2.DayWeek = NilResolver
        THEN [s2 EXCEPT !.DayWeek = Everytime]
        ELSE s2

populateSchedule(s) ==
    LET s1 == IF s.Sec = NilResolver THEN [s EXCEPT !.Sec = FixedSchedule(maxSec, minSecond)]
              ELSE s
        m  == populateMinutes(s.Sec # NilResolver, s1)
        h  == populateHours(m.start, m.s)
    IN  IF h.s.DayWeek = NilResolver
        THEN populateDays(h.start, h.s)
        ELSE populateWeekdays(h.start, h.s)

\* the loop of Build: the first resolver that does not validate ends it with (nil, err)
RECURSIVE buildLoop(_, _, _)
buildLoop(rs, i, s) ==
    IF i > Len(rs) THEN [err |-> nil, s |-> populateSchedule(s)]
    ELSE IF validateResolver(rs[i]) # nil
    THEN [err |-> validateResolver(rs[i]), s |-> ZeroSchedule]
    ELSE buildLoop(rs, i + 1, setResolver(s, rs[i]))

Build(rs) == buildLoop(rs, 1, ZeroSchedule)

InitBuilder ==
    /\ InitRun /\ InitResolveIdle /\ InitSchedIdle /\ InitSelectIdle /\ InitBuildIdle
    /\ InitNewSelIdle /\ InitExecIdle
    /\ stage = "input"
    /\ \E f \in [Categories -> 0..Len(ResolverChoices(seconds))] : resolvers = resolverList(f, seconds)
    /\ schedule = [err |-> nil, s |-> ZeroSchedule]

BuildCall ==
    /\ stage = "input"
    /\ schedule' = Build(resolvers)
    /\ stage' = "built"
    /\ UNCHANGED <<resolvers, resolveVars, schedVars, runVars, metrics, selVars, buildVars,
                   newSelVars, execVars>>

NextBuilder == BuildCall

SpecBuilder == InitBuilder /\ [][NextBuilder]_vars

(***************************************************************************)
(* SpecExec: an executor is built from a list of runners, then Exec is     *)
(* called on it once                                                       *)
(***************************************************************************)

MaxRunners == 2
MaxJitter  == 2

\* a runner handed to the constructor: one that returns nil, one that returns an error,
\* Runnable(nil), or the nil Runner interface
RunnerKinds == {"ok", "fail", "nilRunnable", "nilInterface"}

RunnerLists == UNION { [1..n -> RunnerKinds] : n \in 0..MaxRunners }

\* WithRunners: nil runners are skipped, and with nothing left the option is a no-op
WithRunners(runners) == SelectSeq(runners, LAMBDA r : r # "nilInterface")

\* newExecutable on the Config the options have set
newExecutable(runners) ==
    IF Len(runners) = 0
    THEN [by |-> "newExecutable", err |-> <<"ErrEmptyRunnerList">>, runners |-> <<>>]
    ELSE [by |-> "newExecutable", err |-> nil, runners |-> runners]

\* New(id, runners, options...) of the executor whose options act on *Executable:
\* e.runners = runners, then validate
executorNew(runners) ==
    IF Len(runners) = 0
    THEN [by |-> "New", err |-> <<"ErrEmptyRunnerList">>, runners |-> <<>>]
    ELSE [by |-> "New", err |-> nil, runners |-> runners]

InitExec ==
    /\ InitRun /\ InitResolveIdle /\ InitSchedIdle /\ InitSelectIdle /\ InitBuildIdle
    /\ InitNewSelIdle /\ InitBuilderIdle
    /\ stage = "input"
    /\ runnerArgs \in RunnerLists
    /\ executable = NoExecutable
    /\ execCall = NoExecCall

\* executor.New(id, WithRunners(runners...), WithSchedule(cron))
NewExecutable ==
    /\ stage = "input"
    /\ executable' = newExecutable(WithRunners(runnerArgs))
    /\ stage' = "built"
    /\ UNCHANGED <<runnerArgs, execCall, resolveVars, schedVars, runVars, metrics, selVars,
                   buildVars, newSelVars, builderVars>>

\* executor.New(id, runners, WithSchedule(cron))
ExecutorNew ==
    /\ stage = "input"
    /\ executable' = executorNew(runnerArgs)
    /\ stage' = "built"
    /\ UNCHANGED <<runnerArgs, execCall, resolveVars, schedVars, runVars, metrics, selVars,
                   buildVars, newSelVars, builderVars>>

\* Exec up to its select: now, next and the timer
ExecStart ==
    /\ stage = "built" /\ executable.err = nil
    /\ execCall' = [NoExecCall EXCEPT !.pc = "timer", !.next = SchedNext(0)]
    /\ stage' = "exec"
    /\ UNCHANGED <<runnerArgs, executable, resolveVars, schedVars, runVars, metrics, selVars,
                   buildVars, newSelVars, builderVars>>

\* case <-ctx.Done(): return ctx.Err()
ExecCancelled ==
    /\ execCall.pc = "timer"
    /\ execCall' = [execCall EXCEPT !.pc = "returned", !.errs = <<CtxErr>>]
    /\ UNCHANGED <<stage, runnerArgs, executable, resolveVars, schedVars, runVars, metrics,
                   selVars, buildVars, newSelVars, builderVars>>

\* case <-timer.C, the wall clock then being d ticks off next: time.Since(next) = d, and
\* Exec sleeps d + bufferPeriod when d > 0
ExecTimerFire ==
    /\ execCall.pc = "timer"
    /\ \E d \in -MaxJitter..MaxJitter :
          execCall' = IF d > 0
                      THEN [execCall EXCEPT !.pc = "sleep", !.now = execCall.next + d,
                                            !.wake = execCall.next + d + d + bufferPeriod]
                      ELSE [execCall EXCEPT !.pc = "run", !.now = execCall.next + d]
    /\ UNCHANGED <<stage, runnerArgs, executable, resolveVars, schedVars, runVars, metrics,
                   selVars, buildVars, newSelVars, builderVars>>

\* time.Sleep returns
ExecSleepDone ==
    /\ execCall.pc = "sleep"
    /\ execCall' = [execCall EXCEPT !.pc = "run", !.now = execCall.wake]
    /\ UNCHANGED <<stage, runnerArgs, executable, resolveVars, schedVars, runVars, metrics,
                   selVars, buildVars, newSelVars, builderVars>>

\* e.runners[i].Run(ctx): a method call on the nil interface panics, Runnable(nil).Run
\* returns nil, any other runner is started
ExecRunner ==
    /\ execCall.pc = "run" /\ execCall.i < Len(executable.runners)
    /\ LET r == executable.runners[execCall.i + 1]
       IN  execCall' =
             CASE r = "nilInterface" -> [execCall EXCEPT !.pc = "panicked"]
               [] r = "nilRunnable"  -> [execCall EXCEPT !.i = @ + 1]
               [] r = "ok"   -> [execCall EXCEPT !.i = @ + 1,
                                   !.started = Append(@, [runner |-> execCall.i + 1, at |-> execCall.now])]
               [] r = "fail" -> [execCall EXCEPT !.i = @ + 1,
                                   !.errs = Append(@, execCall.i + 1),
                                   !.started = Append(@, [runner |-> execCall.i + 1, at |-> execCall.now])]
    /\ UNCHANGED <<stage, runnerArgs, executable, resolveVars, schedVars, runVars, metrics,
                   selVars, buildVars, newSelVars, builderVars>>

\* return errors.Join(runnerErrs...)
ExecDone ==
    /\ execCall.pc = "run" /\ execCall.i = Len(executable.runners)
    /\ execCall' = [execCall EXCEPT !.pc = "returned"]
    /\ UNCHANGED <<stage, runnerArgs, executable, resolveVars, schedVars, runVars, metrics,
                   selVars, buildVars, newSelVars, builderVars>>

NextExec ==
    \/ NewExecutable
    \/ ExecutorNew
    \/ ExecStart
    \/ ExecCancelled
    \/ ExecTimerFire
    \/ ExecSleepDone
    \/ ExecRunner
    \/ ExecDone

SpecExec == InitExec /\ [][NextExec]_vars

(***************************************************************************)
(* What an expression asks for, field by field                             *)
(***************************************************************************)

\* the value v satisfies the field the resolver r was built from
Allowed(r, v) ==
    CASE r.kind = "Everytime"     -> TRUE
      [] r.kind = "FixedSchedule" -> v = r.At
      [] r.kind = "RangeSchedule" -> r.From <= v /\ v <= r.To
      [] r.kind = "StepSchedule"  -> \E i \in 1..Len(r.Steps) : r.Steps[i] = v
      [] OTHER -> FALSE

\* every field of the instant t satisfies the schedule s; weekday 7 stands for Sunday
Matches(s, t) ==
    /\ Allowed(s.Sec, t.second)
    /\ Allowed(s.Min, t.minute)
    /\ Allowed(s.Hour, t.hour)
    /\ Allowed(s.DayMonth, t.day)
    /\ Allowed(s.Month, t.month)
    /\ (Allowed(s.DayWeek, Weekday(t)) \/ (Weekday(t) = 0 /\ Allowed(s.DayWeek, 7)))

\* seconds after the input instant searched for an earlier occurrence
Horizon == 120

\* the wrap-around distance from v to the target x in a field 0..max
WrapDistance(v, x, max) == IF v <= x THEN x - v ELSE x + max + 1 - v

(***************************************************************************)
(* Claims                                                                  *)
(***************************************************************************)

\* C1: CronSchedule.Next(T) is the following occurrence of the schedule: it is strictly
\* after T, each of its fields matches the expression, and no instant between T and it
\* matches.
C1_NextIsFollowingOccurrence ==
    stage = "scheduled" =>
        /\ Before(now, nextAt)
        /\ Matches(sched.s, nextAt)
        /\ \A k \in 1..Horizon :
              Before(AddSeconds(now, k), nextAt) => ~Matches(sched.s, AddSeconds(now, k))

\* C2: with the error channel full, a further error is dropped: Run is never stopped at
\* its send on a full channel.
C2_SendNeverBlocks == ~(runPC = "send" /\ Len(errCh) >= errCap)

\* C3: once the context is cancelled a started Run returns, whatever the state of the
\* error channel and whether or not anybody receives from it.
C3_RunReturnsAfterCancel == (ctxDone /\ runPC # "idle") ~> (runPC = "done")

\* C4: at no instant are two Exec calls of the executor in progress.
C4_RunsNeverOverlap == Cardinality({c \in 1..Len(tasks) : tasks[c].state \in InExec}) <= 1

\* C5: for one fire instant a runner is invoked at most once.
C5_OncePerTrigger ==
    \A f \in fired, g \in fired : (f[2] = g[2] /\ f[3] = g[3]) => f[1] = g[1]

\* C6: when the per-call timeout expired while the Exec of call c was in progress, that
\* Next call returns nil, its goroutine hands its result to no Next call, Exec ends on
\* the context error only if the caller cancelled, and otherwise only after every runner
\* was invoked.
C6_TimeoutDetaches ==
    \A c \in 1..Len(tasks) :
        tasks[c].detached =>
            /\ c <= Len(returns) => returns[c] = nil
            /\ tasks[c].state \notin {"sending", "sent"}
            /\ (tasks[c].state \in {"post", "closed"} /\ tasks[c].errs = <<CtxErr>>) => ctxDone
            /\ (tasks[c].state \in {"post", "closed"} /\ tasks[c].errs # <<CtxErr>>) =>
                   \A i \in 1..NumRunners : <<c, tasks[c].at, i>> \in fired

\* a detached Exec whose runner failed after the Next call had returned nil
C6_Witness ==
    \E c \in 1..Len(tasks) :
        /\ tasks[c].detached /\ tasks[c].state = "closed"
        /\ tasks[c].errs = <<NumRunners>>
        /\ c <= Len(returns) /\ returns[c] = nil
        /\ ~ctxDone

\* C7: for a value within the field, the distance lies in [0, Max + 1].
C7_WrapInvariant ==
    (stage = "resolved" /\ val <= res.Max) => (out >= 0 /\ out <= res.Max + 1)

\* C8: FixedSchedule resolves to At - v up to At and wraps through Max + 1 above it.
C8_FixedFormula ==
    (stage = "resolved" /\ res.kind = "FixedSchedule" /\ val <= res.Max) =>
        out = (IF val <= res.At THEN res.At - val ELSE res.At + res.Max + 1 - val)

\* C9: StepSchedule resolves to the least wrap-around distance to one of its steps.
C9_StepMinWrapDistance ==
    (stage = "resolved" /\ res.kind = "StepSchedule" /\ val <= res.Max) =>
        /\ \E i \in 1..Len(res.Steps) : out = WrapDistance(val, res.Steps[i], res.Max)
        /\ \A i \in 1..Len(res.Steps) : out <= WrapDistance(val, res.Steps[i], res.Max)

\* C10: "0-59 * * * * *" and "* * * * * *" have the same next fire instant.
C10_SecRangeSameAsStar ==
    (stage = "scheduled" /\ expr = ExprSecRange) =>
        nextAt = CronScheduleNext(ProcessFunc(ExprEverySecond).s, now)

\* ---- the scheduler, continued ----

\* the expression went through Parse
Parsed == stage \in {"parsed", "scheduled"}

\* C11: monotonicity: for T1 < T2 <= next(T1), next(T2) = next(T1).  T2 = next(T1) is
\* left out of the statement checked: there a scheduler returning a strictly later
\* instant cannot agree, so every violation found lies strictly inside the interval.
C11_Monotonic ==
    stage = "scheduled" =>
        \A t2 \in Instants :
            (Before(now, t2) /\ Before(t2, nextAt)) => CronScheduleNext(sched.s, t2) = nextAt

\* the first instant after t with seconds 0
NextMinuteBoundary(t) == Date(t.year, t.month, t.day, t.hour, t.minute + 1, 0)

\* minute, hour, day, month and weekday of the schedule ask for no advance at t
NoFurtherAdvance(s, t) ==
    /\ Resolve(s.Min, t.minute) = 0
    /\ Resolve(s.Hour, t.hour) = 0
    /\ Resolve(s.DayMonth, t.day) = 0
    /\ Resolve(s.Month, t.month) = 0
    /\ (s.DayWeek.kind = "Everytime" \/ Resolve(s.DayWeek, Weekday(NextMinuteBoundary(t))) = 0)

StepsOk(r) ==
    r.kind = "StepSchedule" =>
        /\ Len(r.Steps) > 0
        /\ \A i \in 1..Len(r.Steps) : r.Steps[i] >= 0 /\ r.Steps[i] <= r.Max
        /\ \A i \in 1..(Len(r.Steps) - 1) : r.Steps[i] < r.Steps[i + 1]

\* C13: in the schedule of an accepted expression every Step resolver has a non-empty,
\* sorted, duplicate-free list of steps within [0, max].
C13_StepsInvariant ==
    (Parsed /\ sched.err = nil) =>
        /\ StepsOk(sched.s.Sec) /\ StepsOk(sched.s.Min) /\ StepsOk(sched.s.Hour)
        /\ StepsOk(sched.s.DayMonth) /\ StepsOk(sched.s.Month) /\ StepsOk(sched.s.DayWeek)

\* the node with every value "7" (root or chained) written "0"
SevenAsZero(node) ==
    LET z(v) == IF v = <<55>> THEN <<48>> ELSE v
        child(c) == [c EXCEPT !.Value = z(c.Value)]
        edge(e)  == [e EXCEPT !.Edges = [j \in DOMAIN e.Edges |-> child(e.Edges[j])]]
    IN  [node EXCEPT !.Value = z(node.Value),
                     !.Edges = [i \in DOMAIN node.Edges |-> edge(node.Edges[i])]]

\* the expression with 7 written 0 in its weekday field
WeekdayAlias(e) == [e EXCEPT ![Len(e)] = SevenAsZero(e[Len(e)])]

\* C14: writing 0 for a weekday 7 changes no next-fire instant.
C14_SevenIsSunday ==
    (stage = "scheduled" /\ Len(expr) \in {noSeconds, withSeconds}
        /\ WeekdayAlias(expr) # expr /\ ProcessFunc(WeekdayAlias(expr)).err = nil) =>
        nextAt = CronScheduleNext(ProcessFunc(WeekdayAlias(expr)).s, now)

\* lowest and highest value of field i of an expression of n fields
FieldMin(n, i) == IF n - i \in {1, 2} THEN 1 ELSE 0
FieldMax(n, i) ==
    CASE n - i = 0 -> maxWeekday
      [] n - i = 1 -> maxMonth
      [] n - i = 2 -> maxDay
      [] n - i = 3 -> maxHour
      [] OTHER     -> maxMin

\* some field of the expression starts with a number outside the field
RootOutOfRange(e) ==
    \E i \in 1..Len(e) :
        /\ e[i].Type = "TokenAlphaNum" /\ AtoiOk(e[i].Value)
        /\ (Atoi(e[i].Value) < FieldMin(Len(e), i) \/ Atoi(e[i].Value) > FieldMax(Len(e), i))

\* C15: an expression of five or six fields with a leading value outside its field is
\* rejected with the out-of-bounds error.
C15_RootRangeChecked ==
    (Parsed /\ Len(expr) \in {noSeconds, withSeconds} /\ RootOutOfRange(expr)) =>
        \E k \in 1..Len(sched.err) : sched.err[k] = "ErrOutOfBoundsAlphanum"

\* the values written in a field: its root and the children of its symbols
FieldValues(node) ==
    (IF node.Type = "TokenAlphaNum" THEN {node.Value} ELSE {})
    \cup UNION { { node.Edges[i].Edges[j].Value : j \in DOMAIN node.Edges[i].Edges } :
                   i \in DOMAIN node.Edges }

\* JAN..DEC for the month field, SUN..SAT for the weekday field, nothing elsewhere
FieldNames(n, i) ==
    CASE n - i = 1 -> { monthsList[k] : k \in 2..Len(monthsList) }
      [] n - i = 0 -> { weekdaysList[k] : k \in 1..Len(weekdaysList) }
      [] OTHER     -> {}

\* C16: an accepted expression holds an alphabetic value only in its month or weekday
\* field, and only a name of the field's list, in whatever letter case.
C16_NamesOnlyWhereListed ==
    (Parsed /\ Len(expr) \in {noSeconds, withSeconds} /\ sched.err = nil) =>
        \A i \in 1..Len(expr) : \A v \in FieldValues(expr[i]) :
            AtoiOk(v) \/ ToUpper(v) \in FieldNames(Len(expr), i)

\* strings.ToLower on ASCII
ToLower(value) ==
    [i \in 1..Len(value) |-> IF value[i] >= 65 /\ value[i] <= 90 THEN value[i] + 32
                             ELSE value[i]]

\* C17: an @ keyword is matched in whatever letter case and gives the schedule of the
\* lower-case keyword; any other value fails with ErrInvalidFrequency.
C17_OverrideAnyCase ==
    (Parsed /\ Len(expr) = override /\ expr[1].Type = "TokenAt") =>
        LET value == expr[1].Edges[1].Value
        IN  IF ToLower(value) \in frequencies
            THEN /\ sched.err = nil
                 /\ sched.s = ProcessFunc(<<At(ToLower(value))>>).s
            ELSE sched.err = <<"ErrInvalidFrequency">>

\* ---- the executor ----

\* states of a goroutine whose Exec call has returned
Returned == {"post", "closed", "sending", "sent"}

\* C18: an Exec whose context was cancelled while it waited, ahead of its timer, returns
\* the context's error before the timer is due and calls no runner.
C18_CancelBeforeFire ==
    \A c \in 1..Len(tasks) :
        tasks[c].early =>
            /\ tasks[c].state \in {"wait"} \cup Returned
            /\ tasks[c].state = "wait" => clock < tasks[c].at
            /\ tasks[c].state \in Returned => tasks[c].errs = <<CtxErr>>
            /\ tasks[c].ran = <<>>
            /\ \A f \in fired : f[1] # c

\* an Exec cancelled ahead of its timer has returned the context's error
C18_Witness ==
    \E c \in 1..Len(tasks) :
        /\ tasks[c].early /\ tasks[c].state \in Returned
        /\ tasks[c].errs = <<CtxErr>> /\ clock < tasks[c].at

\* C19: an Exec whose timer fired calls the runners 1..NumRunners once each, in that
\* order, whatever the earlier ones returned, and returns the join of their errors:
\* nil exactly when every runner returned nil.
C19_AllRunnersInOrder ==
    \A c \in 1..Len(tasks) :
        /\ tasks[c].state = "run" =>
              /\ tasks[c].ran = [i \in 1..tasks[c].idx |-> i]
              /\ Len(tasks[c].outs) = tasks[c].idx - 1
        /\ (tasks[c].state \in Returned /\ tasks[c].errs # <<CtxErr>>) =>
              /\ tasks[c].ran = [i \in 1..NumRunners |-> i]
              /\ Len(tasks[c].outs) = NumRunners
              /\ tasks[c].errs = SelectSeq(tasks[c].ran, LAMBDA i : ~tasks[c].outs[i])
              /\ (tasks[c].errs = nil) <=> (\A i \in 1..NumRunners : tasks[c].outs[i])

\* an Exec whose first runner failed and whose last runner was called and succeeded
C19_Witness ==
    \E c \in 1..Len(tasks) :
        /\ tasks[c].state \in Returned /\ NumRunners > 1
        /\ Len(tasks[c].outs) = NumRunners
        /\ ~tasks[c].outs[1] /\ tasks[c].outs[NumRunners]
        /\ tasks[c].errs = <<1>>

(***************************************************************************)
(* C20: selection among several executors                                  *)
(***************************************************************************)

\* the executors of s.exec whose next fire instant is the earliest, in
\* registration order
Earliest(execs, at) ==
    LET fire(i) == ExecutableNext(execs[i], at)
    IN  SelectSeq([i \in 1..Len(execs) |-> i],
                  LAMBDA i : \A j \in 1..Len(execs) : fire(i) <= fire(j))

IsPrefix(a, b) == Len(a) <= Len(b) /\ a = SubSeq(b, 1, Len(a))

Failed == { i \in 1..Len(selExec) : execOut[i] = "failed" }

\* C21: the blocking Next returns only after every executor dispatched in the step has
\* returned from Exec, and what it returns is the join of their errors: nil exactly
\* when all of them succeeded.
C21_BlockingWaitsAndJoins ==
    stage = "returned" =>
        /\ \A k \in 1..Len(spawned) : execOut[spawned[k]] \in {"ok", "failed"}
        /\ { selRet[k] : k \in 1..Len(selRet) } = Failed
        /\ Len(selRet) = Cardinality(Failed)
        /\ (selRet = nil) <=> (\A k \in 1..Len(spawned) : execOut[spawned[k]] = "ok")

\* two executors dispatched together, one failing and one succeeding
C21_Witness ==
    /\ stage = "returned"
    /\ Len(spawned) >= 2
    /\ \E k \in 1..Len(spawned) : execOut[spawned[k]] = "failed"
    /\ \E k \in 1..Len(spawned) : execOut[spawned[k]] = "ok"

(***************************************************************************)
(* C22, C23: what the non-blocking Next returns, and when                  *)
(***************************************************************************)

C23_NextBounded ==
    /\ runPC \in {"next", "sleep"} => clock <= call.deadline + minStepDuration
    /\ runPC = "sleep" => call.wake <= call.deadline + minStepDuration

\* a Next call that ends at its timeout plus the step sleep while its runner still runs
C23_Witness ==
    /\ runPC = "sleep"
    /\ clock = call.wake
    /\ call.wake = call.deadline + minStepDuration
    /\ tasks[call.id].state = "run"

(***************************************************************************)
(* C24, C25: slow runners under the non-blocking selector                  *)
(***************************************************************************)

\* the fire instants of the executor's schedule after instant a, up to instant b
FiresBetween(a, b) == { f \in (a + 1)..b : f % Period = 0 }

\* C24: while Run is stepping (no error was returned, so it never waited on the error
\* channel) and a runner outlives the timeout of its Next call, every fire instant that
\* has arrived since that runner started has an Exec call dispatched for it.
C24_SlowRunnerSkipsNothing ==
    (runPC \in {"next", "sleep"} /\ ~ctxDone /\ \A k \in 1..Len(returns) : returns[k] = nil) =>
        \A c \in 1..Len(tasks) :
            (tasks[c].state = "run" /\ tasks[c].detached) =>
                \A f \in FiresBetween(tasks[c].at, clock) :
                    \E d \in 1..Len(tasks) : tasks[d].at = f

\* C25: at every instant the Exec calls in progress that selector steps have spawned
\* number at most the executors the selector was built with.
C25_FanOutBounded ==
    Cardinality({c \in 1..Len(tasks) : tasks[c].state \in InExec}) <= Len(selExec)

(***************************************************************************)
(* C26, C27: the error channel                                             *)
(***************************************************************************)

\* what has been posted to runtime.err so far, in the order of the sends
Posted == received \o errCh

\* every error a Next call has returned to Run has been received from Err()
AllDelivered ==
    \A c \in 1..Len(returns) :
        returns[c] # nil => \E k \in 1..Len(received) : received[k] = [call |-> c, err |-> returns[c]]

\* C26: an error returned by a Next call to Run is posted to the error channel once, as
\* it was returned, and with a consumer receiving from Err() it is eventually received.
C26_PostedOnceAndReceived ==
    /\ [](\A k \in 1..Len(Posted) :
            /\ Posted[k].call <= Len(returns)
            /\ Posted[k].err = returns[Posted[k].call]
            /\ Posted[k].err # nil
            /\ \A j \in 1..Len(Posted) : Posted[j].call = Posted[k].call => j = k)
    /\ (~AllDelivered ~> AllDelivered)

\* the runner failed on two fires in a row and its error was received twice
C26_Witness ==
    \E j, k \in 1..Len(received) :
        /\ j < k
        /\ received[j].err = received[k].err
        /\ received[j].err = <<1>>
        /\ tasks[received[k].call].at = tasks[received[j].call].at + Period

C28_ErrorChannelCapacity ==
    (stage \in {"built", "ran"} /\ built.by = "newRuntime" /\ built.kind = "runtime") =>
        built.size = IF ~opts.size.set \/ opts.size.size < 0 THEN defaultBufferSize
                     ELSE IF opts.size.size < minBufferSize THEN minBufferSize
                     ELSE opts.size.size

\* job i has runners and a cron expression that does not parse
BadJob(i) == opts.jobs[i].runners > 0 /\ ProcessFunc(opts.jobs[i].cron).err # nil

\* errors.Is(err, target) on a joined error
Is(err, target) == \E k \in 1..Len(err) : err[k] = target

\* C29: New on a job whose cron expression fails to parse returns an error that the
\* parse error matches, and no runtime that runs.
C29_ParseErrorSurfaces ==
    (stage \in {"built", "ran"} /\ built.by = "newRuntime") =>
        \A i \in 1..Len(opts.jobs) :
            BadJob(i) =>
                /\ built.err # nil
                /\ \A k \in 1..Len(ProcessFunc(opts.jobs[i].cron).err) :
                       Is(built.err, ProcessFunc(opts.jobs[i].cron).err[k])
                /\ built.kind # "runtime"

\* C30: when New returned an error, Run on the runtime it returned comes back at once:
\* it neither panics nor enters the loop.
C30_ErrorMeansNoOp ==
    (stage = "ran" /\ built.err # nil) => ran = "returned"

(***************************************************************************)
(* C33, C34: timers never set in the past, goroutines never left behind    *)
(***************************************************************************)

\* C33: for a schedule that Parse produced and an instant T, Next(T) is strictly later
\* than T: the duration next - now of the executor's timer is positive.
C33_NextStrictlyLater ==
    stage = "scheduled" => Before(now, nextAt)

\* C34: a goroutine spawned by Next that has reached its send on the result channel is
\* never left there by a Next call that has returned: the call it belongs to is still
\* at its select.
C34_NoSenderLeftBehind ==
    \A c \in 1..Len(tasks) :
        tasks[c].state = "sending" => (runPC = "next" /\ call.id = c)

(***************************************************************************)
(* C38, C39: what the runtime and the selector register as metrics         *)
(***************************************************************************)

RunInProgress == runPC \notin {"idle", "done"}

\* C38: the is_up gauge is 1 at every instant between the start of Run and its exit,
\* and once the context is cancelled it eventually becomes 0 and stays 0.
C38_IsUpFollowsRun ==
    /\ [](RunInProgress => metrics.isUp = 1)
    /\ (ctxDone ~> [](metrics.isUp = 0))

ErrorReturns == Cardinality({ k \in 1..Len(returns) : returns[k] # nil })

\* C39: each Next call increments the select-calls counter exactly once, and each Next
\* call that returned an error has incremented the select-errors counter exactly once.
C39_CountersFollowCalls ==
    /\ metrics.selectCalls = callSeq
    /\ metrics.selectErrors = ErrorReturns

(***************************************************************************)
(* C36: executor.Multi                                                     *)
(***************************************************************************)

\* C36: Multi, handed K executors, calls Exec on each of them exactly once, returns
\* only after all K calls have returned, and returns the join of every error they
\* produced (nil exactly when all succeeded); no error is lost when several calls fail.
C36_MultiCallsEachOnceAndJoinsAll ==
    Len(selExec) >= 2 =>
        /\ IsPrefix(spawned, picked)
        /\ \A j \in 1..Len(spawned), k \in 1..Len(spawned) : spawned[j] = spawned[k] => j = k
        /\ \A i \in 1..Len(selExec) :
              (execOut[i] # "idle") <=> (\E k \in 1..Len(spawned) : spawned[k] = i)
        /\ Len(multiErrs) = Cardinality(Failed)
        /\ { multiErrs[k] : k \in 1..Len(multiErrs) } = Failed
        /\ stage = "returned" =>
              /\ spawned = picked
              /\ \A k \in 1..Len(picked) : execOut[picked[k]] \in {"ok", "failed"}
              /\ selRet = multiErrs
              /\ (selRet = nil) <=> (\A k \in 1..Len(picked) : execOut[picked[k]] = "ok")

\* Multi has returned the errors of two executors that failed in the same step
C36_Witness ==
    /\ stage = "returned"
    /\ Len(picked) >= 2
    /\ Len(selRet) >= 2

(***************************************************************************)
(* C37: the timeout of the non-blocking selector                           *)
(***************************************************************************)

\* the timeout the options have left in the Config handed to selector.New, in ms
ConfiguredTimeout == withTimeouts(selOpts.timeouts, 1, selectorDefaultConfig).timeout

\* C37: the selector's timeout is 1 s when none is configured and is never below the
\* 50 ms step duration: a configured timeout below the step duration is raised to the
\* step duration.
C37_TimeoutDefaultAndFloor ==
    (stage = "built" /\ selector.err = nil) =>
        /\ ConfiguredTimeout = 0 => selector.timeout = 1000
        /\ selector.timeout >= minStepDuration * TickMs
        /\ (ConfiguredTimeout > 0 /\ ConfiguredTimeout < minStepDuration * TickMs) =>
              selector.timeout = minStepDuration * TickMs

(***************************************************************************)
(* C40: what Build keeps of the resolvers it is given                      *)
(***************************************************************************)

fieldOf(s, c) ==
    CASE c = seconds   -> s.Sec
      [] c = minutes   -> s.Min
      [] c = hours     -> s.Hour
      [] c = monthDays -> s.DayMonth
      [] c = months    -> s.Month
      [] c = weekdays  -> s.DayWeek

Supplied(c) == \E k \in 1..Len(resolvers) : resolvers[k].category = c

\* C40: when Build succeeds, each field for which a resolver was passed holds exactly
\* that resolver, and a field left unspecified holds a default: Fixed at the field
\* minimum or Everytime, for the time-of-day fields Fixed at the minimum below the first
\* specified field and Everytime above it.
C40_BuildKeepsResolvers ==
    (stage = "built" /\ schedule.err = nil) =>
        /\ \A k \in 1..Len(resolvers) :
              fieldOf(schedule.s, resolvers[k].category) = resolvers[k].resolver
        /\ \A c \in Categories : ~Supplied(c) =>
              fieldOf(schedule.s, c) \in {FixedSchedule(categoryMax(c), categoryMin(c)), Everytime}
        /\ \A c \in seconds..hours : ~Supplied(c) =>
              ((fieldOf(schedule.s, c) = Everytime) <=> (\E d \in seconds..(c - 1) : Supplied(d)))

(***************************************************************************)
(* C32, C35: one Exec call                                                 *)
(***************************************************************************)

IsNullRunner(r) == r \in {"nilRunnable", "nilInterface"}

RunnersOfKind(kinds) == { k \in 1..Len(runnerArgs) : runnerArgs[k] \in kinds }

\* C32: a null runner in the runner list is a silent no-op: Exec does not panic on it,
\* and an Exec call whose timer fired returns the errors of the failing runners only,
\* having run every runner that is not null.
C32_NullRunnerIsNoOp ==
    (\E k \in 1..Len(runnerArgs) : IsNullRunner(runnerArgs[k])) =>
        /\ execCall.pc # "panicked"
        /\ (execCall.pc = "returned" /\ execCall.errs # <<CtxErr>>) =>
              /\ Len(execCall.errs) = Cardinality(RunnersOfKind({"fail"}))
              /\ Len(execCall.started) = Cardinality(RunnersOfKind({"ok", "fail"}))

\* C35: no runner starts before the next instant of the schedule: when the timer fires
\* early, Exec sleeps the residual time and the buffer first.
C35_NoRunnerBeforeNext ==
    \A k \in 1..Len(execCall.started) : execCall.started[k].at >= execCall.next

====
